---- MODULE Spec2Model ----
(***************************************************************************)
(* A model of the hyperterse query gateway: the template substitutor, the  *)
(* input validator, the error taxonomy, the configuration validator, the   *)
(* runtime's hot reload and the dev-mode reload handler.                   *)
(*                                                                         *)
(* Text is modelled character by character: a string is a sequence of      *)
(* one-character strings, so that regex matching, str::replace and the     *)
(* per-dialect escaping are computed the way the code computes them.       *)
(***************************************************************************)
EXTENDS Integers, Sequences, FiniteSets, TLC

VARIABLES
    \* --- TemplateSubstitutor::substitute (runtime/executor/substitutor.rs)
    statement,      \* the statement template handed to substitute
    inputs,         \* the input map: a function from input names to JSON values
    connector,      \* the connector kind: "postgres" | "mysql" | "redis" | "mongodb"
    env,            \* the process environment: a function from variable names to text
    result,         \* the Result of the call under study, or NoResult before it
    \* --- InputValidator::validate (runtime/executor/validator.rs)
    query,          \* the Query whose declared inputs are validated
    \* --- ConfigValidator::validate (parser/validator.rs)
    model,          \* the Model handed to the configuration validator
    strict_names,   \* ConfigValidator.strict_names
    \* --- errors crossing the public boundary (core/error.rs, runtime/handlers)
    failure,        \* where an operation failed and the backend's raw error text
    error,          \* the HyperterseError raised there, or NoError
    response,       \* the response built from the error, or NoResponse
    \* --- dev mode: DevCommand::execute (cli/commands/dev.rs) and Runtime
    \*     (runtime/server.rs)
    file,           \* the configuration file as the last change left it
    now,            \* the clock (Instant::now), in debounce units
    debounce_ms,    \* DevCommand.debounce
    last_reload,    \* the reload handler's last_reload
    rx,             \* the mpsc channel from the watcher to the reload handler
    sent_at,        \* history: the time of every notification sent
    attempts,       \* history: every reload attempt, its trigger and the file it read
    reload,         \* the reload handler task: position, parsed model, outcome
    lock,           \* the RwLock around the Runtime
    main_pc,        \* position of DevCommand::execute's own task
    runtime,        \* the Runtime's model, connectors and executor
    managers,       \* every ConnectorManager created so far
    router,         \* the executor build_router gave the router as its state
    requests,       \* the requests started so far
    close_errors,   \* the errors Connector::close returned inside shutdown's close_all
    run_result,     \* what Runtime::run returned, or NoResult while it runs
    \* --- the HTTP surface: AppState (runtime/state.rs) and the handlers
    \*     (runtime/handlers)
    executor,       \* AppState.executor: its model and the adapters that have a connector
    mcp_sessions,   \* McpSessions.sessions: the map from session ids to sessions
    sessions,       \* every McpSession created so far: its counter and what was sent on tx
    uuids,          \* the ids Uuid::new_v4 has returned so far
    streams,        \* the SSE streams opened so far
    executed,       \* history: the calls of QueryExecutor::execute
    http,           \* history: the last request, the store before it and the response
    \* --- the port override (runtime/server.rs)
    port_override,  \* Runtime.port_override
    parsed_model,   \* the Model as the parser returned it, before any override
    runtime_model,  \* Runtime.model
    reloads,        \* history: the number of Runtime::reload calls that returned Ok
    \* --- the ConnectorManager (runtime/connectors/manager.rs)
    manager,        \* ConnectorManager.connectors: the map and the state of its RwLock
    join_set,       \* initialize's JoinSet: the construction tasks and the order they ended in
    init_call,      \* the call of initialize: its position and its result
    get_call,       \* a call of get made beside it
    close_call,     \* the call of close_all: the closes it made, their errors, its result
    health_call,    \* the call of health_check_all: handles, checks, results
    write_call      \* a caller that asks for the map's write lock

substVars == <<statement, inputs, connector, env, result>>
validateVars == <<query>>
configVars == <<model, strict_names>>
errorVars == <<failure, error, response>>
devVars == <<file, now, debounce_ms, last_reload, rx, sent_at, attempts, reload, lock, main_pc,
             runtime, managers, router, requests>>

shutdownVars == <<close_errors, run_result>>
mcpVars == <<executor, mcp_sessions, sessions, uuids, streams, executed, http>>
portVars == <<port_override, parsed_model, runtime_model, reloads>>
managerVars ==
    <<manager, join_set, init_call, get_call, close_call, health_call, write_call>>

vars == <<substVars, validateVars, configVars, errorVars, devVars, shutdownVars, mcpVars,
          portVars, managerVars>>

(***************************************************************************)
(* Bounds of the model.                                                    *)
(***************************************************************************)
\* Longest statement drawn from free pieces (in pieces).
MaxStmtPieces == 2
\* Most value slots of a generated JSON (MongoDB) statement template.
MaxSlots == 2
\* Longest string value (in characters) drawn for the escaping rules.
MaxStrLen == 3
\* Most inputs a query of the validator's model declares.
MaxInputs == 2
\* Most adapters and most queries of a model handed to the configuration
\* validator.
MaxAdapters == 2
MaxQueries == 2
\* Dev mode: the changes made to the watched file, the clock's last value,
\* the largest debounce delay and the requests started.
MaxChanges == 2
MaxTime == 2
MaxDebounce == 1
MaxRequests == 1

(***************************************************************************)
(* Text helpers.                                                           *)
(***************************************************************************)
NoResult == [kind |-> "none"]
Ok(v) == [kind |-> "ok", value |-> v]
Err(e) == [kind |-> "err", error |-> e]

\* Concatenation of a sequence of strings.
RECURSIVE Concat(_)
Concat(ss) == IF ss = <<>> THEN <<>> ELSE Head(ss) \o Concat(Tail(ss))

\* join(sep) of a Vec<String>.
RECURSIVE Join(_, _)
Join(ss, sep) ==
    IF ss = <<>> THEN <<>>
    ELSE IF Len(ss) = 1 THEN ss[1]
    ELSE ss[1] \o sep \o Join(Tail(ss), sep)

\* Whether text p stands in s at position i.
HasPrefixAt(s, i, p) ==
    /\ i >= 1
    /\ i + Len(p) - 1 <= Len(s)
    /\ SubSeq(s, i, i + Len(p) - 1) = p

\* s.contains(p) for a non-empty pattern p.
Contains(s, p) == \E i \in 1..Len(s) : HasPrefixAt(s, i, p)

\* \s of the regex crate (the ASCII members used here).
IsWs(c) == c \in {" ", "\t", "\n", "\r"}
Letters == {"a", "b", "c", "d", "e", "i", "j", "k", "n", "p", "s", "t", "u", "v", "x",
            "A", "B", "S", "X", "_"}
Digits == {"0", "1", "2", "3", "4", "5", "6", "7", "8", "9"}
\* [A-Za-z_] and [A-Za-z0-9_]
IsNameStart(c) == c \in Letters
IsNameChar(c) == c \in Letters \cup Digits

\* The first position >= i of s that does not hold a character of the class.
RECURSIVE SkipWs(_, _)
SkipWs(s, i) == IF i <= Len(s) /\ IsWs(s[i]) THEN SkipWs(s, i + 1) ELSE i
RECURSIVE SkipName(_, _)
SkipName(s, i) == IF i <= Len(s) /\ IsNameChar(s[i]) THEN SkipName(s, i + 1) ELSE i

\* str::replace(from, to): every non-overlapping occurrence, leftmost first.
RECURSIVE Replace(_, _, _)
Replace(s, from, to) ==
    IF Len(s) < Len(from) \/ Len(from) = 0 THEN s
    ELSE IF SubSeq(s, 1, Len(from)) = from
         THEN to \o Replace(SubSeq(s, Len(from) + 1, Len(s)), from, to)
         ELSE <<Head(s)>> \o Replace(Tail(s), from, to)

(***************************************************************************)
(* The placeholder patterns.                                               *)
(***************************************************************************)
OPEN == <<"{", "{">>
CLOSE == <<"}", "}">>
INPUTS_DOT == <<"i", "n", "p", "u", "t", "s", ".">>
ENV_DOT == <<"e", "n", "v", ".">>

\* A match of \{\{\s*<prefix>([A-Za-z_][A-Za-z0-9_]*)\s*\}\} starting at
\* position i of s: [last |-> the match's last position, name |-> group 1],
\* or last = 0 when the pattern does not match at i.  No part of the pattern
\* can give characters back to the next one (whitespace, name characters and
\* braces are disjoint classes), so the greedy scan is the regex's match.
PlaceholderAt(s, i, prefix) ==
    LET j == SkipWs(s, i + 2)
        k == j + Len(prefix)
        m == SkipName(s, k + 1)
        n == SkipWs(s, m)
    IN  IF /\ HasPrefixAt(s, i, OPEN)
           /\ HasPrefixAt(s, j, prefix)
           /\ k <= Len(s)
           /\ IsNameStart(s[k])
           /\ HasPrefixAt(s, n, CLOSE)
        THEN [last |-> n + 1, name |-> SubSeq(s, k, m - 1)]
        ELSE [last |-> 0, name |-> <<>>]

\* Regex::captures_iter: the successive non-overlapping matches in s from
\* position i on, each as [full |-> group 0, name |-> group 1].
RECURSIVE CapturesFrom(_, _, _)
CapturesFrom(s, i, prefix) ==
    IF i > Len(s) THEN <<>>
    ELSE LET m == PlaceholderAt(s, i, prefix)
         IN  IF m.last = 0 THEN CapturesFrom(s, i + 1, prefix)
             ELSE <<[full |-> SubSeq(s, i, m.last), name |-> m.name]>>
                  \o CapturesFrom(s, m.last + 1, prefix)

INPUT_PATTERN(s) == CapturesFrom(s, 1, INPUTS_DOT)
ENV_PATTERN(s) == CapturesFrom(s, 1, ENV_DOT)

(***************************************************************************)
(* JSON values (serde_json::Value) and their serialization.                *)
(***************************************************************************)
JNull == [t |-> "null"]
JBool(b) == [t |-> "bool", b |-> b]
\* A number is an integer (is_i64 / is_u64) or a float (is_f64); a float is
\* kept as the text its Display gives.
JNum(n) == [t |-> "num", n |-> n]
JFloat(f) == [t |-> "num", f |-> f]
JStr(s) == [t |-> "str", s |-> s]
JArr(a) == [t |-> "arr", a |-> a]
\* An object as a sequence of <<key, value>> pairs in key order.
JObj(o) == [t |-> "obj", o |-> o]

DigitOf(d) == CASE d = 0 -> "0" [] d = 1 -> "1" [] d = 2 -> "2" [] d = 3 -> "3"
                [] d = 4 -> "4" [] d = 5 -> "5" [] d = 6 -> "6" [] d = 7 -> "7"
                [] d = 8 -> "8" [] d = 9 -> "9"

\* Display of an integer (itoa).
RECURSIVE NatToString(_)
NatToString(n) ==
    IF n < 10 THEN <<DigitOf(n)>> ELSE NatToString(n \div 10) \o <<DigitOf(n % 10)>>
IntToString(n) == IF n < 0 THEN <<"-">> \o NatToString(-n) ELSE NatToString(n)
\* Display of a serde_json::Number.
NumberToString(v) == IF "n" \in DOMAIN v THEN IntToString(v.n) ELSE v.f

\* serde_json's string escaping of one character.
JsonEscapeChar(c) ==
    CASE c = "\"" -> <<"\\", "\"">>
      [] c = "\\" -> <<"\\", "\\">>
      [] c = "\n" -> <<"\\", "n">>
      [] c = "\t" -> <<"\\", "t">>
      [] c = "\r" -> <<"\\", "r">>
      [] OTHER -> <<c>>

RECURSIVE JsonEscape(_)
JsonEscape(s) == IF s = <<>> THEN <<>> ELSE JsonEscapeChar(Head(s)) \o JsonEscape(Tail(s))

\* serde_json::to_string (compact form).
RECURSIVE JsonToString(_)
JsonToString(v) ==
    CASE v.t = "null" -> <<"n", "u", "l", "l">>
      [] v.t = "bool" -> IF v.b THEN <<"t", "r", "u", "e">> ELSE <<"f", "a", "l", "s", "e">>
      [] v.t = "num" -> NumberToString(v)
      [] v.t = "str" -> <<"\"">> \o JsonEscape(v.s) \o <<"\"">>
      [] v.t = "arr" ->
            <<"[">> \o Join([i \in 1..Len(v.a) |-> JsonToString(v.a[i])], <<",">>) \o <<"]">>
      [] v.t = "obj" ->
            <<"{">>
            \o Join([i \in 1..Len(v.o) |->
                        <<"\"">> \o JsonEscape(v.o[i][1]) \o <<"\"", ":">>
                        \o JsonToString(v.o[i][2])], <<",">>)
            \o <<"}">>

(***************************************************************************)
(* TemplateSubstitutor: the escaping rules.                                *)
(***************************************************************************)
SQUOTE == <<"'">>
DQUOTE == <<"\"">>
BACKSLASH == <<"\\">>

\* escape_sql without the doubling of single quotes in a string.
RECURSIVE escape_sql_no_doubling(_)
escape_sql_no_doubling(value) ==
    CASE value.t = "null" -> <<"N", "U", "L", "L">>
      [] value.t = "bool" ->
            IF value.b THEN <<"T", "R", "U", "E">> ELSE <<"F", "A", "L", "S", "E">>
      [] value.t = "num" -> NumberToString(value)
      [] value.t = "str" -> SQUOTE \o value.s \o SQUOTE
      [] value.t = "arr" ->
            <<"(">>
            \o Join([i \in 1..Len(value.a) |-> escape_sql_no_doubling(value.a[i])],
                    <<",", " ">>)
            \o <<")">>
      [] value.t = "obj" -> SQUOTE \o JsonToString(value) \o SQUOTE

\* escape_sql
RECURSIVE escape_sql(_)
escape_sql(value) ==
    CASE value.t = "null" -> <<"N", "U", "L", "L">>
      [] value.t = "bool" ->
            IF value.b THEN <<"T", "R", "U", "E">> ELSE <<"F", "A", "L", "S", "E">>
      [] value.t = "num" -> NumberToString(value)
      [] value.t = "str" -> SQUOTE \o Replace(value.s, SQUOTE, SQUOTE \o SQUOTE) \o SQUOTE
      [] value.t = "arr" ->
            <<"(">>
            \o Join([i \in 1..Len(value.a) |-> escape_sql(value.a[i])], <<",", " ">>)
            \o <<")">>
      [] value.t = "obj" ->
            SQUOTE \o Replace(JsonToString(value), SQUOTE, SQUOTE \o SQUOTE) \o SQUOTE

\* escape_redis
escape_redis(value) ==
    CASE value.t = "null" -> <<>>
      [] value.t = "bool" -> IF value.b THEN <<"1">> ELSE <<"0">>
      [] value.t = "num" -> NumberToString(value)
      [] value.t = "str" ->
            IF Contains(value.s, <<" ">>) \/ Contains(value.s, DQUOTE)
               \/ Contains(value.s, SQUOTE)
            THEN DQUOTE
                 \o Replace(Replace(value.s, BACKSLASH, BACKSLASH \o BACKSLASH),
                            DQUOTE, BACKSLASH \o DQUOTE)
                 \o DQUOTE
            ELSE value.s
      [] OTHER ->
            DQUOTE \o Replace(JsonToString(value), DQUOTE, BACKSLASH \o DQUOTE) \o DQUOTE

\* escape_mongodb
escape_mongodb(value) == JsonToString(value)

\* escape_value
escape_value(value, conn) ==
    CASE conn \in {"postgres", "mysql"} -> escape_sql(value)
      [] conn = "redis" -> escape_redis(value)
      [] conn = "mongodb" -> escape_mongodb(value)

(***************************************************************************)
(* TemplateSubstitutor: the two substitution phases.  Each walks the       *)
(* captures of the statement it was given and, for each, replaces every    *)
(* occurrence of the capture's text in the running result.                 *)
(***************************************************************************)
RECURSIVE EnvLoop(_, _, _)
EnvLoop(caps, res, environment) ==
    IF caps = <<>> THEN Ok(res)
    ELSE LET var_name == Head(caps).name
         IN  IF var_name \notin DOMAIN environment
             THEN Err([kind |-> "EnvVarNotFound", name |-> var_name])
             ELSE EnvLoop(Tail(caps),
                          Replace(res, Head(caps).full, environment[var_name]),
                          environment)

substitute_env_vars(stmt, environment) == EnvLoop(ENV_PATTERN(stmt), stmt, environment)

RECURSIVE InputLoop(_, _, _, _)
InputLoop(caps, res, ins, conn) ==
    IF caps = <<>> THEN Ok(res)
    ELSE LET input_name == Head(caps).name
         IN  IF input_name \notin DOMAIN ins
             THEN Err([kind |-> "MissingInput", name |-> input_name])
             ELSE InputLoop(Tail(caps),
                            Replace(res, Head(caps).full,
                                    escape_value(ins[input_name], conn)),
                            ins, conn)

substitute_inputs(stmt, ins, conn) == InputLoop(INPUT_PATTERN(stmt), stmt, ins, conn)

substitute(stmt, ins, conn, environment) ==
    LET r == substitute_env_vars(stmt, environment)
    IN  IF r.kind = "err" THEN r ELSE substitute_inputs(r.value, ins, conn)

(***************************************************************************)
(* The inputs the substitutor is exercised on.                             *)
(***************************************************************************)
Connectors == {"postgres", "mysql", "redis", "mongodb"}

InputNameA == <<"a">>
InputNameB == <<"b">>
InputNames == {InputNameA, InputNameB}
EnvNameX == <<"X">>

\* {{ inputs.a }}, {{ inputs.b }}, {{inputs.a}} and {{ env.X }} as text.
PlaceholderA == OPEN \o <<" ">> \o INPUTS_DOT \o InputNameA \o <<" ">> \o CLOSE
PlaceholderB == OPEN \o <<" ">> \o INPUTS_DOT \o InputNameB \o <<" ">> \o CLOSE
PlaceholderATight == OPEN \o INPUTS_DOT \o InputNameA \o CLOSE
PlaceholderEnvX == OPEN \o <<" ">> \o ENV_DOT \o EnvNameX \o <<" ">> \o CLOSE

\* Statements made of free pieces: plain text and placeholders.
StmtPieces == {<<"S">>, PlaceholderA, PlaceholderB, PlaceholderATight, PlaceholderEnvX}

RECURSIVE PieceSeqs(_)
PieceSeqs(n) ==
    IF n = 0 THEN {<<>>}
    ELSE LET shorter == PieceSeqs(n - 1)
         IN  shorter \cup {s \o p : s \in shorter, p \in StmtPieces}

PieceStatements == PieceSeqs(MaxStmtPieces) \ {<<>>}

\* JSON statement templates for MongoDB: an object of 1..MaxSlots members
\* whose values are placeholders standing bare or wrapped in string quotes,
\* or a literal.
JsonSlots == {PlaceholderA, PlaceholderB, DQUOTE \o PlaceholderA \o DQUOTE, <<"1">>}

JsonMember(slot) == <<"\"", "k", "\"", ":">> \o slot

RECURSIVE JsonMemberLists(_)
JsonMemberLists(n) ==
    IF n = 1 THEN {JsonMember(slot) : slot \in JsonSlots}
    ELSE LET shorter == JsonMemberLists(n - 1)
         IN  shorter \cup {ms \o <<",">> \o JsonMember(slot) :
                              ms \in shorter, slot \in JsonSlots}

JsonTemplates == {<<"{">> \o ms \o <<"}">> : ms \in JsonMemberLists(MaxSlots)}

Statements == PieceStatements \cup JsonTemplates

\* JSON values supplied for an input; one is itself placeholder text.
SubstValues ==
    {JNull, JNum(42), JStr(<<"x">>), JStr(<<"i", "t", "'", "s">>),
     JStr(<<"a", " ", "b">>), JStr(PlaceholderB), JArr(<<JNum(1), JStr(<<"q", "\"">>)>>)}

InputMaps == UNION {[names -> SubstValues] : names \in SUBSET InputNames}

Environments == {<<>>, [n \in {EnvNameX} |-> <<"v">>]}

(***************************************************************************)
(* The substitutor as a state machine: the call's arguments are drawn in   *)
(* the initial state, Substitute is the call.                              *)
(***************************************************************************)
\* The parts of the state the substitutor does not touch.
NoQuery == [name |-> <<>>, adapter |-> <<>>, statement |-> <<>>, inputs |-> <<>>]
NoModel == [name |-> <<>>, adapters |-> <<>>, queries |-> <<>>]
ValidateIdle == query = NoQuery
NoError == [kind |-> "none"]
NoResponse == [kind |-> "none"]
NoFailure == [site |-> "none"]
ConfigIdle == model = NoModel /\ strict_names = TRUE
ErrorIdle == failure = NoFailure /\ error = NoError /\ response = NoResponse
DevIdle ==
    /\ file = <<>> /\ now = 0 /\ debounce_ms = 0 /\ last_reload = 0 /\ rx = <<>>
    /\ sent_at = <<>> /\ attempts = <<>> /\ reload = <<>> /\ lock = <<>> /\ main_pc = "none"
    /\ runtime = <<>> /\ managers = <<>> /\ router = <<>> /\ requests = <<>>
    /\ close_errors = <<>> /\ run_result = NoResult
NoExecutor == [model |-> NoModel, connectors |-> {}]
NoHttp == [route |-> "none"]
McpIdle ==
    /\ executor = NoExecutor /\ mcp_sessions = <<>> /\ sessions = <<>> /\ uuids = {}
    /\ streams = <<>> /\ executed = <<>> /\ http = NoHttp
PortIdle ==
    /\ port_override = NoResult /\ parsed_model = NoModel /\ runtime_model = NoModel
    /\ reloads = 0
NoCall == [pc |-> "none"]
ManagerIdle ==
    /\ manager = <<>> /\ join_set = <<>> /\ init_call = NoCall /\ get_call = NoCall
    /\ close_call = NoCall /\ health_call = NoCall /\ write_call = NoCall
SurfaceIdle == McpIdle /\ PortIdle /\ ManagerIdle
SubstRest == ValidateIdle /\ ConfigIdle /\ ErrorIdle /\ DevIdle /\ SurfaceIdle
substRestVars == <<validateVars, configVars, errorVars, devVars, shutdownVars, mcpVars, portVars, managerVars>>

SubstInit ==
    /\ statement \in Statements
    /\ inputs \in InputMaps
    /\ connector \in Connectors
    /\ env \in Environments
    /\ result = NoResult
    /\ SubstRest

Substitute ==
    /\ result = NoResult
    /\ result' = substitute(statement, inputs, connector, env)
    /\ UNCHANGED <<statement, inputs, connector, env, substRestVars>>

SubstNext == Substitute

SpecSubst == SubstInit /\ [][SubstNext]_vars

(***************************************************************************)
(* The escaping rules exercised value by value: the statement is one       *)
(* placeholder after a fixed prefix, the value ranges over every string of *)
(* at most MaxStrLen characters of EscapeAlphabet and over the scalars.    *)
(***************************************************************************)
EscapeAlphabet == {"a", "'", "\"", "\\", " ", "\t"}

RECURSIVE StringsUpTo(_)
StringsUpTo(n) ==
    IF n = 0 THEN {<<>>}
    ELSE LET shorter == StringsUpTo(n - 1)
         IN  shorter \cup {s \o <<c>> : s \in shorter, c \in EscapeAlphabet}

EscapeValues ==
    {JStr(s) : s \in StringsUpTo(MaxStrLen)}
    \cup {JNull, JBool(TRUE), JBool(FALSE), JNum(0), JNum(7), JNum(42), JNum(-15), JNum(1000),
            JFloat(<<"3", ".", "5">>)}

EscapePrefixes == {<<>>, <<"S", "E", "T", " ", "k", " ">>}
EscapePlaceholders == {PlaceholderA, PlaceholderATight}

EscapeInit ==
    /\ statement \in {p \o ph : p \in EscapePrefixes, ph \in EscapePlaceholders}
    /\ inputs \in {[n \in {InputNameA} |-> v] : v \in EscapeValues}
    /\ connector \in Connectors
    /\ env = <<>>
    /\ result = NoResult
    /\ SubstRest

SpecEscape == EscapeInit /\ [][SubstNext]_vars

(***************************************************************************)
(* What the claims about the substitutor speak of.                         *)
(***************************************************************************)
\* The statement with each placeholder replaced, in one left-to-right pass
\* over the statement alone, by lits[name]; with quoted = TRUE a placeholder
\* wrapped in string quotes is replaced together with its quotes.  Text that
\* a replacement brings in is never looked at again.
RECURSIVE SinglePassFrom(_, _, _, _)
SinglePassFrom(s, i, lits, quoted) ==
    IF i > Len(s) THEN <<>>
    ELSE LET bare == PlaceholderAt(s, i, INPUTS_DOT)
             inner == PlaceholderAt(s, i + 1, INPUTS_DOT)
         IN  IF /\ quoted
                /\ s[i] = "\""
                /\ inner.last # 0
                /\ inner.name \in DOMAIN lits
                /\ HasPrefixAt(s, inner.last + 1, DQUOTE)
             THEN lits[inner.name] \o SinglePassFrom(s, inner.last + 2, lits, quoted)
             ELSE IF bare.last # 0 /\ bare.name \in DOMAIN lits
             THEN lits[bare.name] \o SinglePassFrom(s, bare.last + 1, lits, quoted)
             ELSE <<s[i]>> \o SinglePassFrom(s, i + 1, lits, quoted)

SinglePass(s, lits, quoted) == SinglePassFrom(s, 1, lits, quoted)

\* A JSON text recognizer: each ...End operator is given the position where
\* its construct starts and yields the position after it, or 0 when the text
\* at that position is not such a construct.
JsonEscapable == {"\"", "\\", "/", "b", "f", "n", "r", "t"}
JsonControl == {"\t", "\n", "\r"}

RECURSIVE JsonStringBodyEnd(_, _)
JsonStringBodyEnd(s, i) ==
    IF i > Len(s) THEN 0
    ELSE IF s[i] = "\"" THEN i + 1
    ELSE IF s[i] \in JsonControl THEN 0
    ELSE IF s[i] = "\\"
         THEN IF i + 1 <= Len(s) /\ s[i + 1] \in JsonEscapable
              THEN JsonStringBodyEnd(s, i + 2)
              ELSE 0
    ELSE JsonStringBodyEnd(s, i + 1)

JsonStringEnd(s, i) ==
    IF i <= Len(s) /\ s[i] = "\"" THEN JsonStringBodyEnd(s, i + 1) ELSE 0

RECURSIVE SkipDigits(_, _)
SkipDigits(s, i) == IF i <= Len(s) /\ s[i] \in Digits THEN SkipDigits(s, i + 1) ELSE i

\* -? int frac? (no exponent: no number of the model has one)
JsonNumberEnd(s, i) ==
    LET d == IF i <= Len(s) /\ s[i] = "-" THEN i + 1 ELSE i
        e == SkipDigits(s, d)
        f == SkipDigits(s, e + 1)
    IN  IF e = d THEN 0
        ELSE IF s[d] = "0" /\ e > d + 1 THEN 0
        ELSE IF HasPrefixAt(s, e, <<".">>) THEN (IF f = e + 1 THEN 0 ELSE f)
        ELSE e

RECURSIVE JsonValueEnd(_, _)
RECURSIVE JsonElementsEnd(_, _)
RECURSIVE JsonMembersEnd(_, _)

\* value
JsonValueEnd(s, i) ==
    IF i > Len(s) THEN 0
    ELSE IF HasPrefixAt(s, i, <<"n", "u", "l", "l">>) THEN i + 4
    ELSE IF HasPrefixAt(s, i, <<"t", "r", "u", "e">>) THEN i + 4
    ELSE IF HasPrefixAt(s, i, <<"f", "a", "l", "s", "e">>) THEN i + 5
    ELSE IF s[i] = "\"" THEN JsonStringEnd(s, i)
    ELSE IF s[i] = "[" THEN
         LET j == SkipWs(s, i + 1)
         IN  IF HasPrefixAt(s, j, <<"]">>) THEN j + 1 ELSE JsonElementsEnd(s, j)
    ELSE IF s[i] = "{" THEN
         LET j == SkipWs(s, i + 1)
         IN  IF HasPrefixAt(s, j, <<"}">>) THEN j + 1 ELSE JsonMembersEnd(s, j)
    ELSE JsonNumberEnd(s, i)

\* value (, value)* ]
JsonElementsEnd(s, i) ==
    LET e == JsonValueEnd(s, i)
        j == SkipWs(s, e)
    IN  IF e = 0 THEN 0
        ELSE IF HasPrefixAt(s, j, <<"]">>) THEN j + 1
        ELSE IF HasPrefixAt(s, j, <<",">>) THEN JsonElementsEnd(s, SkipWs(s, j + 1))
        ELSE 0

\* string : value (, string : value)* }
JsonMembersEnd(s, i) ==
    LET k == JsonStringEnd(s, i)
        c == SkipWs(s, k)
        e == IF k # 0 /\ HasPrefixAt(s, c, <<":">>)
             THEN JsonValueEnd(s, SkipWs(s, c + 1))
             ELSE 0
        j == SkipWs(s, e)
    IN  IF e = 0 THEN 0
        ELSE IF HasPrefixAt(s, j, <<"}">>) THEN j + 1
        ELSE IF HasPrefixAt(s, j, <<",">>) THEN JsonMembersEnd(s, SkipWs(s, j + 1))
        ELSE 0

\* serde_json::from_str accepts the text: one value, then only whitespace.
IsValidJson(s) ==
    LET e == JsonValueEnd(s, SkipWs(s, 1))
    IN  e # 0 /\ SkipWs(s, e) = Len(s) + 1

\* The escaped literal of every supplied input, by name.
EscapedLiterals == [n \in DOMAIN inputs |-> escape_value(inputs[n], connector)]

\* The statement as the input phase receives it (environment resolved).
EnvResolved == substitute_env_vars(statement, env).value

\* s with every ' doubled, character by character.
DoubledQuotes(s) ==
    Concat([i \in 1..Len(s) |-> IF s[i] = "'" THEN <<"'", "'">> ELSE <<s[i]>>])

\* s with every \ and " preceded by a backslash, character by character.
BackslashEscaped(s) ==
    Concat([i \in 1..Len(s) |-> IF s[i] \in {"\\", "\""} THEN <<"\\", s[i]>> ELSE <<s[i]>>])

\* The number a string of decimal digits denotes.
DigitValue(c) == CHOOSE d \in 0..9 : DigitOf(d) = c
RECURSIVE DecimalValue(_)
DecimalValue(ds) ==
    IF ds = <<>> THEN 0 ELSE 10 * DecimalValue(SubSeq(ds, 1, Len(ds) - 1)) + DigitValue(ds[Len(ds)])

\* lit is the decimal literal of the integer n: an optional minus sign, then
\* digits without a leading zero, denoting n.
IsDecimalLiteralOf(lit, n) ==
    LET ds == IF lit # <<>> /\ lit[1] = "-" THEN Tail(lit) ELSE lit
    IN  /\ ds # <<>>
        /\ \A i \in 1..Len(ds) : ds[i] \in Digits
        /\ Len(ds) > 1 => ds[1] # "0"
        /\ (lit[1] = "-") = (n < 0)
        /\ DecimalValue(ds) = (IF n < 0 THEN -n ELSE n)

\* In SpecEscape the statement is a prefix and one placeholder of input a:
\* the text that took the placeholder's place in the result.
SubstitutedLiteral ==
    LET p == CHOOSE q \in EscapePrefixes : \E ph \in EscapePlaceholders : statement = q \o ph
    IN  SubSeq(result.value, Len(p) + 1, Len(result.value))

PrefixKept ==
    \E p \in EscapePrefixes, ph \in EscapePlaceholders :
        /\ statement = p \o ph
        /\ SubSeq(result.value, 1, Len(p)) = p

\* C1 (as claimed): whenever substitute succeeds, the result is the statement
\* with each {{ inputs.X }} occurrence replaced, in a single pass, by the
\* dialect-escaped literal of inputs[X], every other character unchanged; in
\* particular placeholder text inside a value is never itself substituted.
C1_SinglePassClaim ==
    result.kind = "ok" => result.value = SinglePass(EnvResolved, EscapedLiterals, FALSE)

\* C2: for postgres and mysql the literal substituted for a placeholder is,
\* for a string s, ' then s with every ' doubled then '; null gives NULL,
\* true/false give TRUE/FALSE, a number gives its decimal literal.
C2_SqlLiteral ==
    (connector \in {"postgres", "mysql"} /\ result # NoResult) =>
        LET v == inputs[InputNameA]
            lit == SubstitutedLiteral
        IN  /\ result.kind = "ok"
            /\ PrefixKept
            /\ v.t = "str" => lit = SQUOTE \o DoubledQuotes(v.s) \o SQUOTE
            /\ v.t = "null" => lit = <<"N", "U", "L", "L">>
            /\ v.t = "bool" =>
                  lit = (IF v.b THEN <<"T", "R", "U", "E">> ELSE <<"F", "A", "L", "S", "E">>)
            /\ (v.t = "num" /\ "n" \in DOMAIN v) => IsDecimalLiteralOf(lit, v.n)
            /\ (v.t = "num" /\ "f" \in DOMAIN v) => lit = v.f

\* C2 witness: a string value holding a single quote has been substituted
\* for a SQL backend.
C2_Witness ==
    /\ connector \in {"postgres", "mysql"}
    /\ result.kind = "ok"
    /\ InputNameA \in DOMAIN inputs
    /\ inputs[InputNameA].t = "str"
    /\ Contains(inputs[InputNameA].s, SQUOTE)
    /\ Contains(result.value, SQUOTE \o SQUOTE)

\* The statement is a JSON template in the claim's sense: with every
\* placeholder, bare or wrapped in string quotes, standing for one JSON
\* value, it is a JSON document.
IsJsonTemplate(s) ==
    /\ INPUT_PATTERN(s) # <<>>
    /\ IsValidJson(SinglePass(s,
                              [n \in {c.name : c \in {INPUT_PATTERN(s)[i] : i \in 1..Len(INPUT_PATTERN(s))}}
                                  |-> <<"n", "u", "l", "l">>],
                              TRUE))

\* C3 (as claimed): for mongodb and a JSON template whose placeholders stand
\* bare or wrapped in string quotes, the substituted text is a valid JSON
\* document, a quoted placeholder being replaced together with its quotes by
\* the JSON serialization of the value.
C3_MongoValidJsonClaim ==
    (connector = "mongodb" /\ result.kind = "ok" /\ IsJsonTemplate(statement)) =>
        /\ IsValidJson(result.value)
        /\ result.value =
              SinglePass(statement, [n \in DOMAIN inputs |-> JsonToString(inputs[n])], TRUE)

\* C4 (as claimed): for redis every string value that contains a whitespace
\* character, " or ' is substituted as one token that begins and ends with "
\* with each \ and " inside backslash-escaped; every other string value is
\* substituted unchanged.
C4_RedisQuotingClaim ==
    (connector = "redis" /\ result.kind = "ok" /\ inputs[InputNameA].t = "str") =>
        LET s == inputs[InputNameA].s
            lit == SubstitutedLiteral
        IN  IF \E i \in 1..Len(s) : IsWs(s[i]) \/ s[i] \in {"\"", "'"}
            THEN lit = DQUOTE \o BackslashEscaped(s) \o DQUOTE
            ELSE lit = s

(***************************************************************************)
(* Primitive types (types/primitive.rs).                                   *)
(***************************************************************************)
Primitives == {"String", "Int", "Float", "Boolean", "Uuid", "Datetime"}

\* impl Display for Primitive
PrimitiveDisplay(p) ==
    CASE p = "String" -> "string"
      [] p = "Int" -> "int"
      [] p = "Float" -> "float"
      [] p = "Boolean" -> "boolean"
      [] p = "Uuid" -> "uuid"
      [] p = "Datetime" -> "datetime"

HexDigits == Digits \cup {"a", "b", "c", "d", "e", "f", "A", "B", "C", "D", "E", "F"}
AllIn(s, from, to, set) == \A i \in from..to : s[i] \in set

\* uuid::Uuid::parse_str, for the simple (32 hex digits) and the hyphenated
\* (8-4-4-4-12) forms.
UuidParses(s) ==
    \/ Len(s) = 32 /\ AllIn(s, 1, 32, HexDigits)
    \/ /\ Len(s) = 36
       /\ \A i \in {9, 14, 19, 24} : s[i] = "-"
       /\ \A i \in (1..36) \ {9, 14, 19, 24} : s[i] \in HexDigits

\* The two-digit number at s[i..i+1], or -1.
TwoDigits(s, i) ==
    IF i + 1 <= Len(s) /\ s[i] \in Digits /\ s[i + 1] \in Digits
    THEN 10 * DigitValue(s[i]) + DigitValue(s[i + 1])
    ELSE -1

\* YYYY-MM-DD<sep>HH:MM:SS at the head of s, sep drawn from seps, the fields
\* within their calendar ranges.
DateTimeHead(s, seps) ==
    /\ Len(s) >= 19
    /\ AllIn(s, 1, 4, Digits)
    /\ s[5] = "-" /\ s[8] = "-" /\ s[11] \in seps /\ s[14] = ":" /\ s[17] = ":"
    /\ TwoDigits(s, 6) \in 1..12
    /\ TwoDigits(s, 9) \in 1..31
    /\ TwoDigits(s, 12) \in 0..23
    /\ TwoDigits(s, 15) \in 0..59
    /\ TwoDigits(s, 18) \in 0..60

\* chrono::DateTime::parse_from_rfc3339: the head, then Z or a numeric offset.
Rfc3339Parses(s) ==
    /\ DateTimeHead(s, {"T", "t", " "})
    /\ \/ Len(s) = 20 /\ s[20] \in {"Z", "z"}
       \/ /\ Len(s) = 25
          /\ s[20] \in {"+", "-"}
          /\ s[23] = ":"
          /\ TwoDigits(s, 21) \in 0..23
          /\ TwoDigits(s, 24) \in 0..59

\* chrono::NaiveDateTime::parse_from_str(s, "%Y-%m-%d %H:%M:%S")
NaiveDateTimeParses(s) == DateTimeHead(s, {" "}) /\ Len(s) = 19

\* Primitive::validate
PrimitiveValidate(p, value) ==
    CASE p = "String" -> value.t = "str"
      [] p = "Int" -> value.t = "num" /\ "n" \in DOMAIN value
      [] p = "Float" -> value.t = "num"
      [] p = "Boolean" -> value.t = "bool"
      [] p = "Uuid" -> value.t = "str" /\ UuidParses(value.s)
      [] p = "Datetime" ->
            value.t = "str" /\ (Rfc3339Parses(value.s) \/ NaiveDateTimeParses(value.s))

(***************************************************************************)
(* Queries and their inputs (core/domain/query.rs).                        *)
(***************************************************************************)
NoDefault == [t |-> "none"]

\* Input::new
InputNew(name, p) ==
    [name |-> name, primitive_type |-> p, required |-> TRUE, default |-> NoDefault]
\* Input::optional
InputOptional(name, p, default) ==
    [name |-> name, primitive_type |-> p, required |-> FALSE, default |-> default]

(***************************************************************************)
(* InputValidator::validate (runtime/executor/validator.rs).               *)
(***************************************************************************)
\* m with key k set to v (HashMap::insert).
Insert(m, k, v) == [x \in DOMAIN m \cup {k} |-> IF x = k THEN v ELSE m[x]]

\* The loop over query.inputs from the i-th declaration on, ins being the
\* map as mutated so far.
RECURSIVE ValidateLoop(_, _, _)
ValidateLoop(defs, i, ins) ==
    IF i > Len(defs) THEN Ok(ins)
    ELSE LET input_def == defs[i]
         IN  IF input_def.name \in DOMAIN ins
             THEN IF ~PrimitiveValidate(input_def.primitive_type, ins[input_def.name])
                  THEN Err([kind |-> "InvalidInputType", name |-> input_def.name,
                            expected |-> PrimitiveDisplay(input_def.primitive_type)])
                  ELSE ValidateLoop(defs, i + 1, ins)
             ELSE IF input_def.required
                  THEN Err([kind |-> "MissingInput", name |-> input_def.name])
                  ELSE IF input_def.default # NoDefault
                       THEN ValidateLoop(defs, i + 1,
                                         Insert(ins, input_def.name, input_def.default))
                       ELSE ValidateLoop(defs, i + 1, ins)

\* validate with the two checks in two passes: every absent required input
\* is reported before any type mismatch.
validate_missing_first(q, ins) ==
    LET missing == {i \in 1..Len(q.inputs) :
                        q.inputs[i].name \notin DOMAIN ins /\ q.inputs[i].required}
    IN  IF missing # {}
        THEN Err([kind |-> "MissingInput",
                  name |-> q.inputs[CHOOSE i \in missing : \A j \in missing : i <= j].name])
        ELSE ValidateLoop(q.inputs, 1, ins)

validate(q, ins) == ValidateLoop(q.inputs, 1, ins)

(***************************************************************************)
(* The validator as a state machine: a query as the configuration          *)
(* validator lets it through (distinct input names, defaults of the        *)
(* declared type) and a supplied map are drawn in the initial state,       *)
(* Validate is the call.                                                   *)
(***************************************************************************)
UuidText ==
    <<"5", "5", "0", "e", "8", "4", "0", "0", "-", "e", "2", "9", "b", "-", "4", "1", "d", "4",
      "-", "a", "7", "1", "6", "-", "4", "4", "6", "6", "5", "5", "4", "4", "0", "0", "0", "0">>
DatetimeText ==
    <<"2", "0", "2", "4", "-", "0", "1", "-", "1", "5", "T", "1", "0", ":", "3", "0", ":",
      "0", "0", "Z">>
NaiveDatetimeText ==
    <<"2", "0", "2", "4", "-", "0", "1", "-", "1", "5", " ", "1", "0", ":", "3", "0", ":",
      "0", "0">>
UndeclaredName == <<"z">>

SuppliedValues ==
    {JStr(<<"x">>), JNum(42), JFloat(<<"3", ".", "5">>), JBool(TRUE), JStr(UuidText),
     JStr(DatetimeText)}

\* A default of the declared type, as ConfigValidator requires.
DefaultOf(p) ==
    CASE p = "String" -> JStr(<<"d">>)
      [] p = "Int" -> JNum(7)
      [] p = "Float" -> JNum(1)
      [] p = "Boolean" -> JBool(FALSE)
      [] p = "Uuid" -> JStr(UuidText)
      [] p = "Datetime" -> JStr(NaiveDatetimeText)

InputDefs(name) ==
    {InputNew(name, p) : p \in Primitives}
    \cup {InputOptional(name, p, DefaultOf(p)) : p \in Primitives}
    \cup {InputOptional(name, "String", NoDefault)}

\* Declaration lists of at most n inputs with pairwise distinct names.
RECURSIVE InputLists(_)
InputLists(n) ==
    IF n = 0 THEN {<<>>}
    ELSE LET shorter == InputLists(n - 1)
         IN  shorter \cup
             UNION {{Append(l, d) :
                        d \in UNION {InputDefs(nm) :
                                       nm \in {x \in InputNames :
                                                 \A i \in 1..Len(l) : l[i].name # x}}} :
                    l \in shorter}

ValidateQueries ==
    {[name |-> <<"q">>, adapter |-> <<"d", "b">>, statement |-> <<"S">>, inputs |-> l] :
        l \in InputLists(MaxInputs)}

SuppliedMaps ==
    UNION {[ks -> SuppliedValues] : ks \in SUBSET InputNames}
    \cup UNION {{Insert(m, UndeclaredName, JStr(<<"x">>)) : m \in [ks -> SuppliedValues]} :
                    ks \in SUBSET InputNames}

SubstIdle ==
    /\ statement = <<>>
    /\ connector = "postgres"
    /\ env = <<>>
ValidateRest == SubstIdle /\ ConfigIdle /\ ErrorIdle /\ DevIdle /\ SurfaceIdle
validateRestVars ==
    <<statement, connector, env, configVars, errorVars, devVars, shutdownVars, mcpVars,
      portVars, managerVars>>

ValidateInit ==
    /\ query \in ValidateQueries
    /\ inputs \in SuppliedMaps
    /\ result = NoResult
    /\ ValidateRest

Validate ==
    /\ result = NoResult
    /\ result' = validate(query, inputs)
    /\ UNCHANGED <<query, inputs, validateRestVars>>

ValidateNext == Validate

SpecValidate == ValidateInit /\ [][ValidateNext]_vars

\* The declared inputs at which validate must stop: a supplied value that
\* does not match the declared primitive, or an absent required input.
Offending ==
    {i \in 1..Len(query.inputs) :
        LET d == query.inputs[i]
        IN  IF d.name \in DOMAIN inputs
            THEN ~PrimitiveValidate(d.primitive_type, inputs[d.name])
            ELSE d.required}

FirstOffending == CHOOSE i \in Offending : \A j \in Offending : i <= j

\* The declared inputs whose default is applied.
Defaulted ==
    {i \in 1..Len(query.inputs) :
        /\ query.inputs[i].name \notin DOMAIN inputs
        /\ ~query.inputs[i].required
        /\ query.inputs[i].default # NoDefault}

\* C5: validate fails at the first declared input, in declaration order, that
\* is supplied with a value not matching its primitive (InvalidInputType with
\* the name and the expected type) or is required and absent (MissingInput
\* with the name); otherwise it returns the supplied map extended with the
\* default of every absent optional input, every supplied entry unchanged.
C5_ValidateOrderAndDefaults ==
    result # NoResult =>
        IF Offending # {}
        THEN LET d == query.inputs[FirstOffending]
             IN  result =
                    (IF d.name \in DOMAIN inputs
                     THEN Err([kind |-> "InvalidInputType", name |-> d.name,
                               expected |-> PrimitiveDisplay(d.primitive_type)])
                     ELSE Err([kind |-> "MissingInput", name |-> d.name]))
        ELSE /\ result.kind = "ok"
             /\ DOMAIN result.value =
                    DOMAIN inputs \cup {query.inputs[i].name : i \in Defaulted}
             /\ \A k \in DOMAIN inputs : result.value[k] = inputs[k]
             /\ \A i \in Defaulted : result.value[query.inputs[i].name] = query.inputs[i].default

\* C5 witness: a call that succeeded with one default applied, one declared
\* optional input supplied (its value kept) and an undeclared entry kept.
C5_Witness ==
    /\ result.kind = "ok"
    /\ Defaulted # {}
    /\ UndeclaredName \in DOMAIN result.value
    /\ \E i \in 1..Len(query.inputs) :
          /\ ~query.inputs[i].required
          /\ query.inputs[i].name \in DOMAIN inputs
          /\ result.value[query.inputs[i].name] # query.inputs[i].default

(***************************************************************************)
(* The data model's lookups (core/domain/model.rs) and the configuration   *)
(* validator (parser/validator.rs).                                        *)
(***************************************************************************)
None == [kind |-> "none"]
Some(v) == [kind |-> "some", value |-> v]

\* Iterator::find over a Vec of named entities: the first with the name.
FindByName(entities, name) ==
    LET hits == {i \in 1..Len(entities) : entities[i].name = name}
    IN  IF hits = {} THEN None
        ELSE Some(entities[CHOOSE i \in hits : \A j \in hits : i <= j])

find_adapter(m, name) == FindByName(m.adapters, name)
find_query(m, name) == FindByName(m.queries, name)

LowerLetters == {"a", "b", "c", "d", "e", "f", "g", "h", "i", "j", "k", "l", "m", "n", "o",
                 "p", "q", "r", "s", "t", "u", "v", "w", "x", "y", "z"}

\* NAME_PATTERN.is_match: ^[a-z][a-z0-9]*(?:[-_][a-z0-9]+)*$ : a lower-case
\* letter first, then lower-case letters, digits and separators, every
\* separator followed by a letter or digit.
NAME_PATTERN(s) ==
    /\ s # <<>>
    /\ s[1] \in LowerLetters
    /\ \A i \in 2..Len(s) :
          \/ s[i] \in LowerLetters \cup Digits
          \/ /\ s[i] \in {"-", "_"}
             /\ i < Len(s)
             /\ s[i + 1] \in LowerLetters \cup Digits

Validation(message) == Err([kind |-> "Validation", message |-> message])
OkUnit == Ok(<<>>)

validate_model_name(strict, name) ==
    IF name = <<>> THEN Validation(<<"Model name cannot be empty">>)
    ELSE IF strict /\ ~NAME_PATTERN(name)
         THEN Validation(<<"Invalid model name '", name,
                           "': must be lower-kebab-case or lower_snake_case">>)
         ELSE OkUnit

\* The loop of validate_adapters from the i-th adapter on, seen being the
\* adapter_names set so far.
RECURSIVE AdaptersLoop(_, _, _, _)
AdaptersLoop(strict, adapters, i, seen) ==
    IF i > Len(adapters) THEN OkUnit
    ELSE LET adapter == adapters[i]
         IN  IF adapter.name = <<>> THEN Validation(<<"Adapter name cannot be empty">>)
             ELSE IF strict /\ ~NAME_PATTERN(adapter.name)
                  THEN Validation(<<"Invalid adapter name '", adapter.name,
                                    "': must be lower-kebab-case or lower_snake_case">>)
             ELSE IF adapter.name \in seen
                  THEN Validation(<<"Duplicate adapter name: '", adapter.name, "'">>)
             ELSE IF adapter.url = <<>>
                  THEN Validation(<<"Adapter '", adapter.name, "' has an empty URL">>)
             ELSE AdaptersLoop(strict, adapters, i + 1, seen \cup {adapter.name})

\* validate_adapters with the duplicate check left out.
validate_adapters_no_duplicate_check(strict, m) ==
    IF \E i \in 1..Len(m.adapters) :
          \/ m.adapters[i].name = <<>>
          \/ strict /\ ~NAME_PATTERN(m.adapters[i].name)
          \/ m.adapters[i].url = <<>>
    THEN Validation(<<"Invalid adapter">>)
    ELSE OkUnit

validate_adapters(strict, m) == AdaptersLoop(strict, m.adapters, 1, {})

\* The loop of validate_query_inputs.
RECURSIVE QueryInputsLoop(_, _, _)
QueryInputsLoop(q, i, seen) ==
    IF i > Len(q.inputs) THEN OkUnit
    ELSE LET input == q.inputs[i]
         IN  IF input.name = <<>>
             THEN Validation(<<"Query '", q.name, "' has an input with empty name">>)
             ELSE IF input.name \in seen
                  THEN Validation(<<"Query '", q.name, "' has duplicate input: '",
                                    input.name, "'">>)
             ELSE IF ~input.required /\ input.default = NoDefault
                  THEN Validation(<<"Query '", q.name, "': optional input '", input.name,
                                    "' must have a default value">>)
             ELSE IF /\ input.default # NoDefault
                     /\ ~PrimitiveValidate(input.primitive_type, input.default)
                  THEN Validation(<<"Query '", q.name, "': default value for '", input.name,
                                    "' has invalid type (expected ",
                                    PrimitiveDisplay(input.primitive_type), ")">>)
             ELSE QueryInputsLoop(q, i + 1, seen \cup {input.name})

validate_query_inputs(q) == QueryInputsLoop(q, 1, {})

\* The loop of validate_queries.
RECURSIVE QueriesLoop(_, _, _, _)
QueriesLoop(strict, queries, i, seen) ==
    IF i > Len(queries) THEN OkUnit
    ELSE LET q == queries[i]
         IN  IF q.name = <<>> THEN Validation(<<"Query name cannot be empty">>)
             ELSE IF strict /\ ~NAME_PATTERN(q.name)
                  THEN Validation(<<"Invalid query name '", q.name,
                                    "': must be lower-kebab-case or lower_snake_case">>)
             ELSE IF q.name \in seen
                  THEN Validation(<<"Duplicate query name: '", q.name, "'">>)
             ELSE IF q.adapter = <<>>
                  THEN Validation(<<"Query '", q.name, "' has no adapter specified">>)
             ELSE IF q.statement = <<>>
                  THEN Validation(<<"Query '", q.name, "' has an empty statement">>)
             ELSE IF validate_query_inputs(q).kind = "err" THEN validate_query_inputs(q)
             ELSE QueriesLoop(strict, queries, i + 1, seen \cup {q.name})

validate_queries(strict, m) == QueriesLoop(strict, m.queries, 1, {})

validate_adapter_references(m) ==
    LET adapter_names == {m.adapters[i].name : i \in 1..Len(m.adapters)}
        bad == {i \in 1..Len(m.queries) : m.queries[i].adapter \notin adapter_names}
        q == m.queries[CHOOSE i \in bad : \A j \in bad : i <= j]
    IN  IF bad = {} THEN OkUnit
        ELSE Validation(<<"Query '", q.name, "' references non-existent adapter: '",
                          q.adapter, "'">>)

\* The names a statement's {{ inputs.X }} tokens capture, in order.
ReferencedInputs(stmt) == [i \in 1..Len(INPUT_PATTERN(stmt)) |-> INPUT_PATTERN(stmt)[i].name]

\* validate_input_references letting every statement through.
validate_input_references_unchecked(m) == OkUnit

validate_input_references(m) ==
    LET undefined(q) ==
            {k \in 1..Len(ReferencedInputs(q.statement)) :
                ReferencedInputs(q.statement)[k]
                    \notin {q.inputs[i].name : i \in 1..Len(q.inputs)}}
        bad == {i \in 1..Len(m.queries) : undefined(m.queries[i]) # {}}
        q == m.queries[CHOOSE i \in bad : \A j \in bad : i <= j]
        k == CHOOSE x \in undefined(q) : \A y \in undefined(q) : x <= y
    IN  IF bad = {} THEN OkUnit
        ELSE Validation(<<"Query '", q.name, "' uses undefined input: '{ inputs.",
                          ReferencedInputs(q.statement)[k], " }'">>)

\* ConfigValidator::validate: the five checks in order, the first error
\* returned.
config_validate(strict, m) ==
    IF validate_model_name(strict, m.name).kind = "err" THEN validate_model_name(strict, m.name)
    ELSE IF validate_adapters(strict, m).kind = "err" THEN validate_adapters(strict, m)
    ELSE IF validate_queries(strict, m).kind = "err" THEN validate_queries(strict, m)
    ELSE IF validate_adapter_references(m).kind = "err" THEN validate_adapter_references(m)
    ELSE validate_input_references(m)

(***************************************************************************)
(* The configuration validator as a state machine: a model, well formed or *)
(* not, is drawn in the initial state, ValidateConfig is the call.         *)
(***************************************************************************)
Adapter(name, conn, url) == [name |-> name, connector |-> conn, url |-> url]

AdapterCandidates ==
    {Adapter(n, "postgres", <<"u">>) : n \in {<<"d">>, <<"e", "-", "2">>, <<>>, <<"d", "-">>}}
    \cup {Adapter(<<"d">>, "redis", <<>>)}

\* Queries, well formed and each defective in one way.
Query(name, adapter, stmt, ins) ==
    [name |-> name, adapter |-> adapter, statement |-> stmt, inputs |-> ins]

QueryCandidates ==
    {Query(<<"q">>, <<"d">>, PlaceholderA, <<InputNew(InputNameA, "String")>>),
     Query(<<"r", "_", "1">>, <<"d">>, PlaceholderA,
           <<InputOptional(InputNameA, "Int", JNum(7))>>),
     Query(<<"q">>, <<"e", "-", "2">>, <<"S">> \o PlaceholderB \o PlaceholderATight,
           <<InputNew(InputNameB, "String"), InputOptional(InputNameA, "Int", JNum(7))>>),
     Query(<<"q">>, <<"x">>, <<"S">>, <<>>),
     Query(<<"q">>, <<"d">>, <<"S">> \o PlaceholderB \o PlaceholderATight,
           <<InputNew(InputNameA, "String")>>),
     Query(<<"q">>, <<"d">>, <<"S">>, <<InputOptional(InputNameA, "Int", NoDefault)>>),
     Query(<<"q">>, <<"d">>, <<"S">>, <<InputOptional(InputNameA, "Int", JStr(<<"x">>))>>),
     Query(<<"q">>, <<"d">>, PlaceholderA,
           <<InputOptional(InputNameA, "Int", JNum(7)), InputNew(InputNameA, "String")>>),
     Query(<<"q">>, <<"d">>, <<"S">>, <<InputNew(<<>>, "String")>>),
     Query(<<>>, <<"d">>, <<"S">>, <<>>),
     Query(<<"Q">>, <<"d">>, <<"S">>, <<>>),
     Query(<<"q">>, <<>>, <<"S">>, <<>>),
     Query(<<"q">>, <<"d">>, <<>>, <<>>)}

\* Sequences of at most n elements of set.
RECURSIVE SeqsUpTo(_, _)
SeqsUpTo(set, n) ==
    IF n = 0 THEN {<<>>}
    ELSE LET shorter == SeqsUpTo(set, n - 1)
         IN  shorter \cup {Append(l, x) : l \in shorter, x \in set}

ConfigRest ==
    SubstIdle /\ ValidateIdle /\ ErrorIdle /\ DevIdle /\ SurfaceIdle /\ inputs = <<>>
configRestVars ==
    <<statement, inputs, connector, env, validateVars, errorVars, devVars, shutdownVars,
      mcpVars, portVars, managerVars>>

ConfigInit ==
    /\ \E n \in {<<"m">>, <<>>, <<"M">>},
          as \in SeqsUpTo(AdapterCandidates, MaxAdapters),
          qs \in SeqsUpTo(QueryCandidates, MaxQueries) :
            model = [name |-> n, adapters |-> as, queries |-> qs]
    /\ strict_names \in BOOLEAN
    /\ result = NoResult
    /\ ConfigRest

ValidateConfig ==
    /\ result = NoResult
    /\ result' = config_validate(strict_names, model)
    /\ UNCHANGED <<model, strict_names, configRestVars>>

ConfigNext == ValidateConfig

SpecConfig == ConfigInit /\ [][ConfigNext]_vars

\* C10: every model the configuration validator accepts has pairwise
\* distinct adapter names and pairwise distinct query names, every query's
\* adapter names an adapter of the model, every {{ inputs.X }} token of a
\* statement names an input declared on its query, every non-required input
\* has a default and every default matches its declared primitive; and for
\* every name defined in the model find_query / find_adapter return the only
\* entity with that name.
C10_AcceptedModelInvariants ==
    (result # NoResult /\ result.kind = "ok") =>
        LET as == model.adapters
            qs == model.queries
        IN  /\ \A i, j \in 1..Len(as) : as[i].name = as[j].name => i = j
            /\ \A i, j \in 1..Len(qs) : qs[i].name = qs[j].name => i = j
            /\ \A i \in 1..Len(qs) : \E j \in 1..Len(as) : as[j].name = qs[i].adapter
            /\ \A i \in 1..Len(qs) :
                  \A k \in 1..Len(ReferencedInputs(qs[i].statement)) :
                      \E d \in 1..Len(qs[i].inputs) :
                          qs[i].inputs[d].name = ReferencedInputs(qs[i].statement)[k]
            /\ \A i \in 1..Len(qs) :
                  \A d \in 1..Len(qs[i].inputs) :
                      LET input == qs[i].inputs[d]
                      IN  /\ ~input.required => input.default # NoDefault
                          /\ input.default # NoDefault =>
                                PrimitiveValidate(input.primitive_type, input.default)
            /\ \A i \in 1..Len(as) :
                  /\ find_adapter(model, as[i].name) = Some(as[i])
                  /\ \A j \in 1..Len(as) : as[j].name = as[i].name => as[j] = as[i]
            /\ \A i \in 1..Len(qs) :
                  /\ find_query(model, qs[i].name) = Some(qs[i])
                  /\ \A j \in 1..Len(qs) : qs[j].name = qs[i].name => qs[j] = qs[i]

\* C10 witness: an accepted model with two adapters and two queries, one of
\* them with a placeholder and an optional input.
C10_Witness ==
    /\ result.kind = "ok"
    /\ Len(model.adapters) = 2
    /\ Len(model.queries) = 2
    /\ \E i \in 1..Len(model.queries) :
          /\ ReferencedInputs(model.queries[i].statement) # <<>>
          /\ \E d \in 1..Len(model.queries[i].inputs) : ~model.queries[i].inputs[d].required

(***************************************************************************)
(* The error taxonomy (core/error.rs).  An error is a record of its        *)
(* variant and its payload; a message is the sequence of the fragments     *)
(* that format! concatenates, a backend's raw error text being one         *)
(* fragment.                                                               *)
(***************************************************************************)
HError(variant, message) == [kind |-> variant, message |-> message]

\* impl Display (the #[error("...")] attributes)
ErrorDisplay(e) ==
    CASE e.kind = "Config" -> <<"Configuration error: ">> \o e.message
      [] e.kind = "Validation" -> <<"Validation error: ">> \o e.message
      [] e.kind = "Database" -> <<"Database error: ">> \o e.message
      [] e.kind = "Redis" -> <<"Redis error: ">> \o e.message
      [] e.kind = "MongoDB" -> <<"MongoDB error: ">> \o e.message
      [] e.kind = "QueryExecution" -> <<"Query execution failed: ">> \o e.message
      [] e.kind = "Connector" -> <<"Connector error: ">> \o e.message
      [] e.kind = "InputValidation" -> <<"Input validation error: ">> \o e.message
      [] e.kind = "Template" -> <<"Template error: ">> \o e.message
      [] e.kind = "Server" -> <<"Server error: ">> \o e.message
      [] e.kind = "QueryNotFound" -> <<"Query not found: ", e.name>>
      [] e.kind = "AdapterNotFound" -> <<"Adapter not found: ", e.name>>
      [] e.kind = "MissingInput" -> <<"Missing required input: ", e.name>>
      [] e.kind = "InvalidInputType" ->
            <<"Invalid input type for '", e.name, "': expected ", e.expected>>
      [] e.kind = "EnvVarNotFound" -> <<"Environment variable not found: ", e.name>>
      [] e.kind = "Internal" -> <<"Internal error: ">> \o e.message

\* status_code without the arm for the input errors.
status_code_not_found_only(e) ==
    CASE e.kind \in {"QueryNotFound", "AdapterNotFound"} -> 404
      [] OTHER -> 500

status_code(e) ==
    CASE e.kind \in {"QueryNotFound", "AdapterNotFound"} -> 404
      [] e.kind \in {"Validation", "InputValidation", "MissingInput", "InvalidInputType"} -> 400
      [] OTHER -> 500

sanitized_message(e) ==
    CASE e.kind \in {"Database", "Redis", "MongoDB", "Connector"} ->
            <<"Database connection error">>
      [] e.kind = "Internal" -> <<"Internal server error">>
      [] e.kind = "QueryNotFound" -> <<"Query not found: ", e.name>>
      [] e.kind = "AdapterNotFound" -> <<"Adapter not found: ", e.name>>
      [] e.kind = "MissingInput" -> <<"Missing required input: ", e.name>>
      [] e.kind = "InvalidInputType" ->
            <<"Invalid input type for '", e.name, "': expected ", e.expected>>
      [] e.kind = "Validation" -> <<"Validation error: ">> \o e.message
      [] e.kind = "InputValidation" -> <<"Input validation error: ">> \o e.message
      [] OTHER -> ErrorDisplay(e)

\* The error a connector raises when its backend fails with the raw text
\* raw: in new (construct), in execute and in health_check.
BackendError(kind, op, raw) ==
    CASE kind = "postgres" /\ op = "construct" ->
            HError("Database", <<"PostgreSQL connection failed: ", raw>>)
      [] kind = "postgres" /\ op = "execute" ->
            HError("QueryExecution", <<"PostgreSQL query failed: ", raw>>)
      [] kind = "postgres" /\ op = "health_check" ->
            HError("Database", <<"PostgreSQL health check failed: ", raw>>)
      [] kind = "mysql" /\ op = "construct" ->
            HError("Database", <<"MySQL connection failed: ", raw>>)
      [] kind = "mysql" /\ op = "execute" ->
            HError("QueryExecution", <<"MySQL query failed: ", raw>>)
      [] kind = "mysql" /\ op = "health_check" ->
            HError("Database", <<"MySQL health check failed: ", raw>>)
      [] kind = "redis" /\ op = "construct" ->
            HError("Redis", <<"Redis connection failed: ", raw>>)
      [] kind = "redis" /\ op = "execute" -> HError("Redis", <<"GET failed: ", raw>>)
      [] kind = "redis" /\ op = "health_check" ->
            HError("Redis", <<"Redis health check failed: ", raw>>)
      [] kind = "mongodb" /\ op = "construct" ->
            HError("MongoDB", <<"MongoDB client creation failed: ", raw>>)
      [] kind = "mongodb" /\ op = "execute" -> HError("MongoDB", <<"find failed: ", raw>>)
      [] kind = "mongodb" /\ op = "health_check" ->
            HError("MongoDB", <<"MongoDB health check failed: ", raw>>)

\* The errors raised inside the runtime around a failure text: a panicked
\* connector task (ConnectorManager::initialize) and a failed serialization
\* (escape_mongodb).
InternalError(op, raw) ==
    CASE op = "join" -> HError("Connector", <<"Task join error: ", raw>>)
      [] op = "serialize" -> HError("Template", <<"JSON serialization failed: ", raw>>)

\* QueryHandler::execute, the Err arm.
HttpErrorResponse(e) ==
    [kind |-> "http",
     status |-> CASE status_code(e) = 404 -> 404
                  [] status_code(e) = 400 -> 400
                  [] OTHER -> 500,
     body |-> [success |-> FALSE, error |-> sanitized_message(e), results |-> <<>>]]

\* handle_tools_call, the Err arm.
McpToolErrorResponse(e) ==
    [kind |-> "mcp",
     status |-> 200,
     content |-> <<[type |-> "text", text |-> <<"Error: ">> \o sanitized_message(e)]>>,
     isError |-> TRUE]

(***************************************************************************)
(* Failures as a state machine: an operation fails with some raw text, the *)
(* error is raised, and a failure inside QueryExecutor::execute is turned  *)
(* into the HTTP envelope or the MCP tool result.                          *)
(***************************************************************************)
RawTexts ==
    {"connection to server at 10.0.0.5 failed: password authentication failed for user admin",
     "relation users does not exist",
     "syntax error at or near SELECT",
     "timed out",
     "WRONGTYPE Operation against a key holding the wrong kind of value"}
BackendOps == {"construct", "execute", "health_check"}
InternalOps == {"join", "serialize"}

\* The error the failure recorded in f raises.
Raised(f) ==
    IF f.site = "backend" THEN BackendError(f.kind, f.op, f.raw) ELSE InternalError(f.op, f.raw)

ErrorRest ==
    /\ SubstIdle /\ ValidateIdle /\ ConfigIdle /\ DevIdle /\ SurfaceIdle
    /\ inputs = <<>>
    /\ result = NoResult
errorRestVars == <<substVars, validateVars, configVars, devVars, shutdownVars, mcpVars, portVars, managerVars>>

ErrorInit == ErrorIdle /\ ErrorRest

BackendFails ==
    /\ failure = NoFailure
    /\ \E kind \in Connectors, op \in BackendOps, raw \in RawTexts :
          /\ failure' = [site |-> "backend", kind |-> kind, op |-> op, raw |-> raw]
          /\ error' = BackendError(kind, op, raw)
    /\ UNCHANGED <<response, errorRestVars>>

InternalFails ==
    /\ failure = NoFailure
    /\ \E op \in InternalOps, raw \in RawTexts :
          /\ failure' = [site |-> "internal", op |-> op, raw |-> raw]
          /\ error' = InternalError(op, raw)
    /\ UNCHANGED <<response, errorRestVars>>

\* The failures that happen inside a request.
InRequest(f) == f.site # "none" /\ f.op \in {"execute", "serialize"}

RespondHttp ==
    /\ InRequest(failure)
    /\ response = NoResponse
    /\ response' = HttpErrorResponse(error)
    /\ UNCHANGED <<failure, error, errorRestVars>>

RespondMcp ==
    /\ InRequest(failure)
    /\ response = NoResponse
    /\ response' = McpToolErrorResponse(error)
    /\ UNCHANGED <<failure, error, errorRestVars>>

ErrorNext == BackendFails \/ InternalFails \/ RespondHttp \/ RespondMcp

SpecError == ErrorInit /\ [][ErrorNext]_vars

\* The message part of a response.
PublicMessage(r) == IF r.kind = "http" THEN r.body.error ELSE r.content[1].text

\* The response the request's handler builds for the error e.
ResponseLike(r, e) == IF r.kind = "http" THEN HttpErrorResponse(e) ELSE McpToolErrorResponse(e)

\* C6 (as claimed): the message that crosses the public boundary for a
\* backend or internal failure is a fixed class-level string: the same
\* failure with any other raw text gives the identical message and response,
\* and the raw text is no part of it.
C6_SanitizedClaim ==
    response # NoResponse =>
          /\ \A raw \in RawTexts :
                ResponseLike(response, Raised([failure EXCEPT !.raw = raw])) = response
          /\ \A i \in 1..Len(PublicMessage(response)) : PublicMessage(response)[i] # failure.raw

(***************************************************************************)
(* Dev mode (cli/commands/dev.rs) around the Runtime (runtime/server.rs).  *)
(*                                                                         *)
(* Three tasks run: the watcher, which sends a notification for every      *)
(* modification of the file; the reload handler, which receives them; and  *)
(* DevCommand::execute itself, which takes the read lock and serves.       *)
(* A configuration is abstracted to what the reload depends on: whether it *)
(* parses and validates, the kind of its adapter, and whether that         *)
(* adapter's backend can be connected to.                                  *)
(***************************************************************************)
\* mpsc::channel::<()>(10)
ChannelCapacity == 10

Content(id, valid, kind, connects) ==
    [id |-> id, valid |-> valid, kind |-> kind, connects |-> connects]

\* What a change can leave in the file.
Contents(id) ==
    {Content(id, FALSE, "postgres", FALSE)}
    \cup {Content(id, TRUE, k, c) : k \in {"postgres", "redis"}, c \in BOOLEAN}

\* QueryExecutor::new(model, connectors)
Executor(m, mgr) == [model |-> m.id, connectors |-> mgr]

\* Connector::close: the SQL connectors close their pool, the Redis and
\* MongoDB connectors leave the connection as it is.
ClosedBy(kind, open) == IF kind \in {"postgres", "mysql"} THEN FALSE ELSE open

\* ConnectorManager::close_all on manager mgr.
close_all(mgrs, mgr) == [mgrs EXCEPT ![mgr].open = ClosedBy(mgrs[mgr].kind, mgrs[mgr].open)]

\* tokio::sync::RwLock: when write() and read() are granted.
CanWriteIgnoringReaders == ~lock.writer
CanWrite == lock.readers = 0 /\ ~lock.writer
CanRead == ~lock.writer

\* The runtime as a reload finds it.
Snapshot == [runtime |-> runtime, open |-> managers[runtime.connectors].open]

DevRest ==
    /\ SubstIdle /\ ValidateIdle /\ ConfigIdle /\ ErrorIdle /\ SurfaceIdle
    /\ inputs = <<>>
    /\ result = NoResult
devOtherVars == <<substVars, validateVars, configVars, errorVars, mcpVars, portVars, managerVars>>
devRestVars == <<devOtherVars, shutdownVars>>

\* After Runtime::with_port_override and the two spawns, before the server
\* task asks for the read lock.
DevInit ==
    /\ file \in {Content(0, TRUE, k, TRUE) : k \in {"postgres", "redis"}}
    /\ now = 0
    /\ debounce_ms \in 0..MaxDebounce
    /\ last_reload = 0
    /\ rx = <<>>
    /\ sent_at = <<>>
    /\ attempts = <<>>
    /\ reload = [pc |-> "recv", outcome |-> "none"]
    /\ lock = [readers |-> 0, writer |-> FALSE]
    /\ main_pc = "spawned"
    /\ managers = <<[model |-> 0, kind |-> file.kind, open |-> TRUE]>>
    /\ runtime = [model |-> file, connectors |-> 1, executor |-> Executor(file, 1)]
    /\ router = <<>>
    /\ requests = <<>>
    /\ close_errors = <<>>
    /\ run_result = NoResult
    /\ DevRest

Tick ==
    /\ now < MaxTime
    /\ now' = now + 1
    /\ UNCHANGED <<file, debounce_ms, last_reload, rx, sent_at, attempts, reload, lock, main_pc,
                   runtime, managers, router, requests, devRestVars>>

\* The file is modified and the watcher's callback sends a notification.
FileChange ==
    /\ Len(sent_at) < MaxChanges
    /\ Len(rx) < ChannelCapacity
    /\ main_pc # "done"
    /\ file' \in Contents(file.id + 1)
    /\ rx' = Append(rx, file.id + 1)
    /\ sent_at' = Append(sent_at, now)
    /\ UNCHANGED <<now, debounce_ms, last_reload, attempts, reload, lock, main_pc, runtime,
                   managers, router, requests, devRestVars>>

\* last_reload.elapsed() < Duration::from_millis(debounce_ms)
WithinDebounce == now - last_reload < debounce_ms

\* The reload handler receives a notification within the debounce delay.
ReloadSkip ==
    /\ reload.pc = "recv"
    /\ rx # <<>>
    /\ WithinDebounce
    /\ rx' = Tail(rx)
    /\ UNCHANGED <<file, now, debounce_ms, last_reload, sent_at, attempts, reload, lock, main_pc,
                   runtime, managers, router, requests, devRestVars>>

\* It receives one past the delay and parse_file fails.
ReloadParseFails ==
    /\ reload.pc = "recv"
    /\ rx # <<>>
    /\ ~WithinDebounce
    /\ ~file.valid
    /\ rx' = Tail(rx)
    /\ attempts' = Append(attempts, [trigger |-> Head(rx), read |-> file.id])
    /\ reload' = [pc |-> "recv", outcome |-> "failed", before |-> Snapshot]
    /\ UNCHANGED <<file, now, debounce_ms, last_reload, sent_at, lock, main_pc, runtime,
                   managers, router, requests, devRestVars>>

\* It receives one past the delay, parse_file succeeds, and it asks for the
\* write lock.
ReloadParses ==
    /\ reload.pc = "recv"
    /\ rx # <<>>
    /\ ~WithinDebounce
    /\ file.valid
    /\ rx' = Tail(rx)
    /\ attempts' = Append(attempts, [trigger |-> Head(rx), read |-> file.id])
    /\ reload' = [pc |-> "lock", outcome |-> "none", new_model |-> file]
    /\ UNCHANGED <<file, now, debounce_ms, last_reload, sent_at, lock, main_pc, runtime,
                   managers, router, requests, devRestVars>>

\* runtime_clone.write().await is granted: Runtime::reload begins.
ReloadLocks ==
    /\ reload.pc = "lock"
    /\ CanWrite
    /\ lock' = [lock EXCEPT !.writer = TRUE]
    /\ reload' = [pc |-> "close", outcome |-> "none", new_model |-> reload.new_model,
                  before |-> Snapshot]
    /\ UNCHANGED <<file, now, debounce_ms, last_reload, rx, sent_at, attempts, main_pc, runtime,
                   managers, router, requests, devRestVars>>

\* Runtime::reload: self.connectors.close_all()
ReloadClosesOld ==
    /\ reload.pc = "close"
    /\ managers' = close_all(managers, runtime.connectors)
    /\ reload' = [reload EXCEPT !.pc = "init"]
    /\ UNCHANGED <<file, now, debounce_ms, last_reload, rx, sent_at, attempts, lock, main_pc,
                   runtime, router, requests, devRestVars>>

\* Runtime::reload: connectors.initialize(..)? fails and reload returns.
ReloadInitFails ==
    /\ reload.pc = "init"
    /\ ~reload.new_model.connects
    /\ reload' = [pc |-> "recv", outcome |-> "failed", before |-> reload.before]
    /\ lock' = [lock EXCEPT !.writer = FALSE]
    /\ UNCHANGED <<file, now, debounce_ms, last_reload, rx, sent_at, attempts, main_pc, runtime,
                   managers, router, requests, devRestVars>>

\* Runtime::reload: the new connectors are initialized and self is updated.
ReloadSucceeds ==
    /\ reload.pc = "init"
    /\ reload.new_model.connects
    /\ managers' = Append(managers, [model |-> reload.new_model.id,
                                     kind |-> reload.new_model.kind, open |-> TRUE])
    /\ runtime' = [model |-> reload.new_model,
                   connectors |-> Len(managers) + 1,
                   executor |-> Executor(reload.new_model, Len(managers) + 1)]
    /\ last_reload' = now
    /\ reload' = [pc |-> "recv", outcome |-> "ok", before |-> reload.before]
    /\ lock' = [lock EXCEPT !.writer = FALSE]
    /\ UNCHANGED <<file, now, debounce_ms, rx, sent_at, attempts, main_pc, router, requests,
                   devRestVars>>

\* runtime.read().await is granted and Runtime::run builds the router and
\* serves.
MainServes ==
    /\ main_pc = "spawned"
    /\ CanRead
    /\ lock' = [lock EXCEPT !.readers = @ + 1]
    /\ router' = runtime.executor
    /\ main_pc' = "serving"
    /\ UNCHANGED <<file, now, debounce_ms, last_reload, rx, sent_at, attempts, reload, runtime,
                   managers, requests, devRestVars>>

\* A request arrives: its handler is given the router's state.
RequestStarts ==
    /\ main_pc = "serving"
    /\ Len(requests) < MaxRequests
    /\ requests' = Append(requests, [pc |-> "started", executor |-> router,
                                     current |-> runtime.executor])
    /\ UNCHANGED <<file, now, debounce_ms, last_reload, rx, sent_at, attempts, reload, lock,
                   main_pc, runtime, managers, router, devRestVars>>

\* QueryExecutor::execute up to self.connectors.get: the query is looked up
\* in the executor's model, the connector in the executor's manager.
RequestGetsConnector ==
    \E i \in 1..Len(requests) :
        /\ requests[i].pc = "started"
        /\ requests' = [requests EXCEPT ![i] =
                            [pc |-> "executing", executor |-> @.executor, current |-> @.current,
                             model |-> @.executor.model, connectors |-> @.executor.connectors]]
        /\ UNCHANGED <<file, now, debounce_ms, last_reload, rx, sent_at, attempts, reload, lock,
                       main_pc, runtime, managers, router, devRestVars>>

\* connector.execute and the response.
RequestCompletes ==
    \E i \in 1..Len(requests) :
        /\ requests[i].pc = "executing"
        /\ requests' = [requests EXCEPT ![i] =
                            [pc |-> "done", executor |-> @.executor, current |-> @.current,
                             model |-> @.model, connectors |-> @.connectors,
                             ok |-> managers[@.connectors].open]]
        /\ UNCHANGED <<file, now, debounce_ms, last_reload, rx, sent_at, attempts, reload, lock,
                       main_pc, runtime, managers, router, devRestVars>>

\* The shutdown signal: the server stops accepting.
ShutdownSignal ==
    /\ main_pc = "serving"
    /\ main_pc' = "draining"
    /\ UNCHANGED <<file, now, debounce_ms, last_reload, rx, sent_at, attempts, reload, lock,
                   runtime, managers, router, requests, devRestVars>>

\* axum::serve(..).with_graceful_shutdown(..) returns once the signal has
\* come and no request is in flight.
Drained_at_once == TRUE

Drained == \A i \in 1..Len(requests) : requests[i].pc = "done"

\* What ConnectorManager::close_all returns: Ok when no close failed, else
\* one Connector error naming the connectors whose close failed.
close_all_result(errors) ==
    IF errors = <<>> THEN OkUnit
    ELSE Err(HError("Connector", <<"Errors closing connectors: ">> \o errors))

\* Runtime::shutdown: the error of close_all is logged and dropped.
shutdown(closed) == OkUnit

\* The end of Runtime::run: self.shutdown().await?; Ok(())
run_after_serve(shut) == IF shut.kind = "err" THEN shut ELSE OkUnit

\* The in-flight requests are over, axum::serve returns and Runtime::run
\* calls self.shutdown(), which calls close_all; failed is whether the
\* connector's close returned Err, the connector then staying as it was.
MainShutsDown ==
    /\ main_pc = "draining"
    /\ Drained
    /\ \E failed \in BOOLEAN :
          LET errors == IF failed THEN <<managers[runtime.connectors].kind>> ELSE <<>>
          IN  /\ managers' = IF failed THEN managers
                             ELSE close_all(managers, runtime.connectors)
              /\ close_errors' = errors
              /\ run_result' = run_after_serve(shutdown(close_all_result(errors)))
    /\ main_pc' = "stopped"
    /\ UNCHANGED <<file, now, debounce_ms, last_reload, rx, sent_at, attempts, reload, lock,
                   runtime, router, requests, devOtherVars>>

\* The read guard goes out of scope.
MainUnlocks ==
    /\ main_pc = "stopped"
    /\ lock' = [lock EXCEPT !.readers = @ - 1]
    /\ main_pc' = "cleanup"
    /\ UNCHANGED <<file, now, debounce_ms, last_reload, rx, sent_at, attempts, reload, runtime,
                   managers, router, requests, devRestVars>>

\* watcher_handle.abort(); reload_handle.abort(): the reload handler is
\* cancelled where it stands, its write guard dropped.
MainAborts ==
    /\ main_pc = "cleanup"
    /\ main_pc' = "done"
    /\ reload' = [pc |-> "aborted", outcome |-> "none"]
    /\ lock' = [lock EXCEPT !.writer = FALSE]
    /\ UNCHANGED <<file, now, debounce_ms, last_reload, rx, sent_at, attempts, runtime, managers,
                   router, requests, devRestVars>>

DevNext ==
    \/ Tick
    \/ FileChange
    \/ ReloadSkip
    \/ ReloadParseFails
    \/ ReloadParses
    \/ ReloadLocks
    \/ ReloadClosesOld
    \/ ReloadInitFails
    \/ ReloadSucceeds
    \/ MainServes
    \/ RequestStarts
    \/ RequestGetsConnector
    \/ RequestCompletes
    \/ ShutdownSignal
    \/ MainShutsDown
    \/ MainUnlocks
    \/ MainAborts

SpecDev == DevInit /\ [][DevNext]_vars

C8_FailedReloadClaim ==
    (reload.outcome = "failed" /\ main_pc \in {"spawned", "serving", "draining"}) =>
        /\ runtime = reload.before.runtime
        /\ managers[runtime.connectors].open = reload.before.open

\* The notifications sent so far are one burst: they all fall within one
\* debounce window, a quiet window came before the first and another has
\* passed since the last, and the reload handler has received them all.
BurstOver ==
    /\ sent_at # <<>>
    /\ sent_at[Len(sent_at)] - sent_at[1] < debounce_ms
    /\ sent_at[1] >= debounce_ms
    /\ now - sent_at[Len(sent_at)] >= debounce_ms
    /\ rx = <<>>
    /\ reload.pc = "recv"

\* C9 (as claimed): a burst of notifications within one debounce window gives
\* exactly one reload attempt, triggered by the last notification of the
\* burst and reading the file as the last change left it.
C9_DebounceClaim ==
    BurstOver =>
        /\ Len(attempts) = 1
        /\ attempts[1].trigger = Len(sent_at)
        /\ attempts[1].read = file.id

(***************************************************************************)
(* QueryExecutor::execute (runtime/executor/mod.rs).  An executor is its   *)
(* model and its connector manager, the manager being the set of adapter   *)
(* names that have a connector.  What the backend does with a statement is *)
(* an input of the call: it returns rows or fails with some raw text.       *)
(***************************************************************************)
\* ConnectorManager::get
manager_get(connectors, name) ==
    IF name \in connectors THEN Ok(name) ELSE Err([kind |-> "AdapterNotFound", name |-> name])

\* Connector::execute of a connector of the given kind.
connector_execute(kind, stmt, outcome) ==
    IF outcome.ok THEN Ok(outcome.rows) ELSE Err(BackendError(kind, "execute", outcome.raw))

\* execute handing the caller's inputs to the substitutor and the connector
\* without validating them.
execute_unvalidated(ex, query_name, ins, environment, outcome) ==
    LET found == find_query(ex.model, query_name)
        Failed(r, done) == [result |-> r, calls |-> 0, steps |-> done]
    IN  IF found = None
        THEN Failed(Err([kind |-> "QueryNotFound", name |-> query_name]), <<"find_query">>)
        ELSE LET q == found.value
                 conn == manager_get(ex.connectors, q.adapter)
                 adapter == find_adapter(ex.model, q.adapter)
             IN  IF conn.kind = "err" THEN Failed(conn, <<"find_query", "connectors.get">>)
                 ELSE IF adapter = None
                 THEN Failed(Err([kind |-> "AdapterNotFound", name |-> q.adapter]),
                             <<"find_query", "connectors.get", "find_adapter">>)
                 ELSE LET stmt == substitute(q.statement, ins, adapter.value.connector,
                                             environment)
                      IN  IF stmt.kind = "err"
                          THEN Failed(stmt, <<"find_query", "connectors.get", "find_adapter",
                                              "substitute">>)
                          ELSE [result |-> connector_execute(adapter.value.connector,
                                                             stmt.value, outcome),
                                calls |-> 1,
                                steps |-> <<"find_query", "connectors.get", "find_adapter",
                                            "substitute", "connector.execute">>]

\* The steps of execute, in the order of the code; calls is the number of
\* times Connector::execute was invoked, steps the calls execute made, the
\* last one being the one that failed when the result is an error.
execute(ex, query_name, ins, environment, outcome) ==
    LET found == find_query(ex.model, query_name)
        Failed(r, done) == [result |-> r, calls |-> 0, steps |-> done]
    IN  IF found = None
        THEN Failed(Err([kind |-> "QueryNotFound", name |-> query_name]), <<"find_query">>)
        ELSE LET q == found.value
                 validated_inputs == validate(q, ins)
             IN  IF validated_inputs.kind = "err"
                 THEN Failed(validated_inputs, <<"find_query", "validate">>)
                 ELSE LET conn == manager_get(ex.connectors, q.adapter)
                          adapter == find_adapter(ex.model, q.adapter)
                      IN  IF conn.kind = "err"
                          THEN Failed(conn, <<"find_query", "validate", "connectors.get">>)
                          ELSE IF adapter = None
                          THEN Failed(Err([kind |-> "AdapterNotFound", name |-> q.adapter]),
                                      <<"find_query", "validate", "connectors.get",
                                        "find_adapter">>)
                          ELSE LET stmt == substitute(q.statement, validated_inputs.value,
                                                      adapter.value.connector, environment)
                               IN  IF stmt.kind = "err"
                                   THEN Failed(stmt, <<"find_query", "validate",
                                                       "connectors.get", "find_adapter",
                                                       "substitute">>)
                                   ELSE [result |-> connector_execute(adapter.value.connector,
                                                                      stmt.value, outcome),
                                         calls |-> 1,
                                         steps |-> <<"find_query", "validate",
                                                     "connectors.get", "find_adapter",
                                                     "substitute", "connector.execute">>]

(***************************************************************************)
(* serde_json::Value accessors and the pretty printer.                     *)
(***************************************************************************)
\* Value::get(key): the member of an object, None for anything else.
Get(v, key) ==
    IF v.t = "obj" /\ \E i \in 1..Len(v.o) : v.o[i][1] = key
    THEN Some(v.o[CHOOSE i \in 1..Len(v.o) : v.o[i][1] = key][2])
    ELSE None

\* .and_then(|v| v.as_str())
AsStr(opt) == IF opt # None /\ opt.value.t = "str" THEN Some(opt.value.s) ELSE None

\* .and_then(|v| v.as_object()).map(|obj| obj.iter()...collect()).unwrap_or_default()
ObjectToMap(opt) ==
    IF opt # None /\ opt.value.t = "obj"
    THEN [k \in {opt.value.o[i][1] : i \in 1..Len(opt.value.o)} |-> Get(opt.value, k).value]
    ELSE <<>>

UnwrapOr(opt, default) == IF opt = None THEN default ELSE opt.value

Indent(n) == [i \in 1..(2 * n) |-> " "]

\* serde_json::to_string_pretty: two spaces a level, one element a line.
RECURSIVE JsonToStringPretty(_, _)
JsonToStringPretty(v, n) ==
    CASE v.t = "arr" /\ v.a # <<>> ->
            <<"[", "\n">>
            \o Join([i \in 1..Len(v.a) |-> Indent(n + 1) \o JsonToStringPretty(v.a[i], n + 1)],
                    <<",", "\n">>)
            \o <<"\n">> \o Indent(n) \o <<"]">>
      [] v.t = "obj" /\ v.o # <<>> ->
            <<"{", "\n">>
            \o Join([i \in 1..Len(v.o) |->
                        Indent(n + 1) \o <<"\"">> \o JsonEscape(v.o[i][1]) \o <<"\"", ":", " ">>
                        \o JsonToStringPretty(v.o[i][2], n + 1)],
                    <<",", "\n">>)
            \o <<"\n">> \o Indent(n) \o <<"}">>
      [] OTHER -> JsonToString(v)

(***************************************************************************)
(* The JSON-RPC envelope (types/runtime.rs) and HTTP responses.            *)
(***************************************************************************)
INVALID_REQUEST == -32600
METHOD_NOT_FOUND == -32601
INVALID_PARAMS == -32602

McpResponse_success(id, res) ==
    [jsonrpc |-> "2.0", id |-> id, result |-> Some(res), error |-> None]

McpResponse_error(id, code, message) ==
    [jsonrpc |-> "2.0", id |-> id, result |-> None,
     error |-> Some([code |-> code, message |-> message])]

NoHeaders == <<>>
\* (status, Json(body)).into_response() and StatusCode.into_response()
JsonResponse(status, body) == [status |-> status, headers |-> NoHeaders, body |-> Some(body)]
StatusResponse(status) == [status |-> status, headers |-> NoHeaders, body |-> None]

MCP_SESSION_ID_HEADER == "mcp-session-id"
MCP_LATEST_PROTOCOL_VERSION == "2025-11-25"

\* headers.get(MCP_SESSION_ID_HEADER).and_then(|v| v.to_str().ok()): a header
\* value is its bytes and whether they are all visible ASCII.
SessionHeader(headers) ==
    IF MCP_SESSION_ID_HEADER \in DOMAIN headers /\ headers[MCP_SESSION_ID_HEADER].visible
    THEN Some(headers[MCP_SESSION_ID_HEADER].bytes)
    ELSE None

(***************************************************************************)
(* The session store (runtime/state.rs).  mcp_sessions maps a session id   *)
(* to a session, a session being an index into sessions, the McpSession    *)
(* objects created so far.  A session is its event counter and the values  *)
(* sent on its broadcast channel while it had a receiver.                   *)
(***************************************************************************)
\* The bound of a session's broadcast channel, scaled down from the 128 of
\* McpSession::new so that a slow stream lags within MaxPublished values.
BroadcastCapacity == 1

\* Uuid::to_string (hyphenated lower-case hex); the model's v4 UUIDs differ
\* in one digit.
UuidToString(u) ==
    <<"0", "0", "0", "0", "0", "0", "0", DigitOf(u), "-", "0", "0", "0", "0", "-",
      "4", "0", "0", "0", "-", "8", "0", "0", "0", "-",
      "0", "0", "0", "0", "0", "0", "0", "0", "0", "0", "0", "0">>

McpSession_new == [counter |-> 1, sent |-> <<>>]

\* create building the map anew around the session it adds.
McpSessions_create_alone(store, heap, uuid) ==
    LET id == UuidToString(uuid)
    IN  [id |-> id,
         mcp_sessions |-> [k \in {id} |-> Len(heap) + 1],
         sessions |-> Append(heap, McpSession_new)]

\* McpSessions::create, uuid being what Uuid::new_v4 returned.
McpSessions_create(store, heap, uuid) ==
    LET id == UuidToString(uuid)
    IN  [id |-> id,
         mcp_sessions |-> Insert(store, id, Len(heap) + 1),
         sessions |-> Append(heap, McpSession_new)]

McpSessions_get(store, id) == IF id \in DOMAIN store THEN Some(store[id]) ELSE None

\* remove reporting success whether or not the id was there.
McpSessions_remove_always_true(store, id) ==
    [removed |-> TRUE,
     mcp_sessions |-> [k \in DOMAIN store \ {id} |-> store[k]]]

McpSessions_remove(store, id) ==
    [removed |-> id \in DOMAIN store,
     mcp_sessions |-> [k \in DOMAIN store \ {id} |-> store[k]]]

\* McpSession::next_event_seq: counter.fetch_add(1)
next_event_seq(heap, k) ==
    [seq |-> heap[k].counter, sessions |-> [heap EXCEPT ![k].counter = @ + 1]]

\* broadcast::Sender::send with rx_cnt live receivers: without a receiver the
\* value is returned to the sender and not kept.
broadcast_send(heap, k, value, rx_cnt) ==
    IF rx_cnt = 0 THEN heap ELSE [heap EXCEPT ![k].sent = Append(@, value)]

\* The same receiver handing out the value without advancing.
broadcast_recv_no_advance(session, next) ==
    LET oldest == Len(session.sent) - BroadcastCapacity + 1
    IN  IF next > Len(session.sent) THEN [kind |-> "empty", next |-> next]
        ELSE IF next < oldest THEN [kind |-> "lagged", next |-> oldest]
        ELSE [kind |-> "value", value |-> session.sent[next], next |-> next]

\* broadcast::Receiver::recv of a receiver that is to read position next:
\* the channel keeps the last BroadcastCapacity values; a receiver that
\* fell behind is moved to the oldest kept value and told it lagged.
broadcast_recv(session, next) ==
    LET oldest == Len(session.sent) - BroadcastCapacity + 1
    IN  IF next > Len(session.sent) THEN [kind |-> "empty", next |-> next]
        ELSE IF next < oldest THEN [kind |-> "lagged", next |-> oldest]
        ELSE [kind |-> "value", value |-> session.sent[next], next |-> next + 1]

(***************************************************************************)
(* McpHandler (runtime/handlers/mcp.rs).  A handler is an operator from    *)
(* the application state and the request to the response and the state it  *)
(* leaves: the store, the sessions, the streams it opened and the calls of  *)
(* QueryExecutor::execute it made.                                          *)
(***************************************************************************)
AppState == [executor |-> executor, mcp_sessions |-> mcp_sessions, sessions |-> sessions]

\* A handler's outcome that touches nothing.
Untouched(app, resp) ==
    [response |-> resp, mcp_sessions |-> app.mcp_sessions, sessions |-> app.sessions,
     opened |-> <<>>, executed |-> <<>>]

handle_initialize(app, id, uuid) ==
    LET created == McpSessions_create(app.mcp_sessions, app.sessions, uuid)
        res == [protocolVersion |-> MCP_LATEST_PROTOCOL_VERSION,
                capabilities |-> [tools |-> <<>>],
                serverInfo |-> [name |-> "hyperterse", version |-> "CARGO_PKG_VERSION"]]
    IN  [response |-> [status |-> 200,
                       headers |-> [h \in {MCP_SESSION_ID_HEADER} |-> created.id],
                       body |-> Some(McpResponse_success(id, res))],
         mcp_sessions |-> created.mcp_sessions,
         sessions |-> created.sessions,
         opened |-> <<>>,
         executed |-> <<>>]

handle_ping(app, id) == Untouched(app, JsonResponse(200, McpResponse_success(id, <<>>)))

\* The JSON Schema type of a primitive.
SchemaType(p) ==
    CASE p = "String" -> "string"
      [] p = "Int" -> "integer"
      [] p = "Float" -> "number"
      [] p = "Boolean" -> "boolean"
      [] p = "Uuid" -> "string"
      [] p = "Datetime" -> "string"

RECURSIVE RequiredNames(_)
RequiredNames(ins) ==
    IF ins = <<>> THEN <<>>
    ELSE (IF Head(ins).required THEN <<Head(ins).name>> ELSE <<>>) \o RequiredNames(Tail(ins))

handle_tools_list(app, id) ==
    LET Tool(q) ==
            [name |-> q.name,
             description |-> "",
             inputSchema |->
                [type |-> "object",
                 properties |->
                    [n \in {q.inputs[i].name : i \in 1..Len(q.inputs)} |->
                        [type |-> SchemaType(
                            q.inputs[CHOOSE i \in 1..Len(q.inputs) :
                                        /\ q.inputs[i].name = n
                                        /\ \A j \in 1..Len(q.inputs) :
                                              q.inputs[j].name = n => j <= i].primitive_type)]],
                 required |-> RequiredNames(q.inputs)]]
        tools == [i \in 1..Len(app.executor.model.queries) |-> Tool(app.executor.model.queries[i])]
    IN  Untouched(app, JsonResponse(200, McpResponse_success(id, [tools |-> tools])))

\* handle_tools_call reporting a failed execution as a JSON-RPC error.
handle_tools_call_rpc_error(app, id, params, environment, outcome) ==
    LET name == AsStr(Get(params, "name"))
        arguments == Get(params, "arguments")
    IN  IF name = None
        THEN Untouched(app, JsonResponse(200, McpResponse_error(id, INVALID_PARAMS,
                                                                "Missing tool name")))
        ELSE LET tool_name == name.value
                 ins == ObjectToMap(arguments)
                 run == execute(app.executor, tool_name, ins, environment, outcome)
             IN  [response |->
                    IF run.result.kind = "ok"
                    THEN JsonResponse(200, McpResponse_success(id,
                            [content |->
                                <<[type |-> "text",
                                   text |-> JsonToStringPretty(run.result.value, 0)]>>]))
                    ELSE JsonResponse(200, McpResponse_error(id, -32603,
                            sanitized_message(run.result.error))),
                  mcp_sessions |-> app.mcp_sessions,
                  sessions |-> app.sessions,
                  opened |-> <<>>,
                  executed |-> <<[query_name |-> tool_name, inputs |-> ins,
                                  result |-> run.result, calls |-> run.calls]>>]

handle_tools_call(app, id, params, environment, outcome) ==
    LET name == AsStr(Get(params, "name"))
        arguments == Get(params, "arguments")
    IN  IF name = None
        THEN Untouched(app, JsonResponse(200, McpResponse_error(id, INVALID_PARAMS,
                                                                "Missing tool name")))
        ELSE LET tool_name == name.value
                 ins == ObjectToMap(arguments)
                 run == execute(app.executor, tool_name, ins, environment, outcome)
                 res == IF run.result.kind = "ok"
                        THEN [content |->
                                <<[type |-> "text",
                                   text |-> JsonToStringPretty(run.result.value, 0)]>>]
                        ELSE [content |->
                                <<[type |-> "text",
                                   text |-> <<"Error: ">> \o sanitized_message(run.result.error)]>>,
                              isError |-> TRUE]
             IN  [response |-> JsonResponse(200, McpResponse_success(id, res)),
                  mcp_sessions |-> app.mcp_sessions,
                  sessions |-> app.sessions,
                  opened |-> <<>>,
                  executed |-> <<[query_name |-> tool_name, inputs |-> ins,
                                  result |-> run.result, calls |-> run.calls]>>]

\* The match on the method of a request that has an id.
dispatch(app, id, method, params, uuid, environment, outcome) ==
    CASE method = "tools/list" -> handle_tools_list(app, id)
      [] method = "tools/call" -> handle_tools_call(app, id, params, environment, outcome)
      [] method = "initialize" -> handle_initialize(app, id, uuid)
      [] method = "ping" -> handle_ping(app, id)
      [] OTHER ->
            Untouched(app, JsonResponse(200,
                McpResponse_error(id, METHOD_NOT_FOUND, <<"Method not found: ", method>>)))

\* handle_rpc turning away a request whose MCP-Session-Id names no session.
handle_rpc_session_required(app, headers, message, uuid, environment, outcome) ==
    LET jsonrpc == UnwrapOr(AsStr(Get(message, "jsonrpc")), "")
        method == AsStr(Get(message, "method"))
        id == Get(message, "id")
        params == UnwrapOr(Get(message, "params"), JObj(<<>>))
        session_id == SessionHeader(headers)
    IN  IF jsonrpc # "2.0"
        THEN Untouched(app, JsonResponse(400, McpResponse_error(UnwrapOr(id, JNull),
                                                                INVALID_REQUEST,
                                                                "Invalid JSON-RPC version")))
        ELSE IF session_id # None /\ McpSessions_get(app.mcp_sessions, session_id.value) = None
        THEN Untouched(app, JsonResponse(404, [error |-> "Unknown MCP session"]))
        ELSE IF method = None /\ (Get(message, "result") # None \/ Get(message, "error") # None)
        THEN Untouched(app, StatusResponse(202))
        ELSE IF method = None
        THEN Untouched(app, JsonResponse(400, McpResponse_error(UnwrapOr(id, JNull),
                                                                INVALID_REQUEST,
                                                                "Invalid JSON-RPC message")))
        ELSE IF id = None
        THEN Untouched(app, StatusResponse(202))
        ELSE dispatch(app, id.value, method.value, params, uuid, environment, outcome)

\* handle_rpc running a notification's method before acknowledging it.
handle_rpc_notification_dispatched(app, headers, message, uuid, environment, outcome) ==
    LET jsonrpc == UnwrapOr(AsStr(Get(message, "jsonrpc")), "")
        method == AsStr(Get(message, "method"))
        id == Get(message, "id")
        params == UnwrapOr(Get(message, "params"), JObj(<<>>))
    IN  IF jsonrpc # "2.0"
        THEN Untouched(app, JsonResponse(400, McpResponse_error(UnwrapOr(id, JNull),
                                                                INVALID_REQUEST,
                                                                "Invalid JSON-RPC version")))
        ELSE IF method = None /\ (Get(message, "result") # None \/ Get(message, "error") # None)
        THEN Untouched(app, StatusResponse(202))
        ELSE IF method = None
        THEN Untouched(app, JsonResponse(400, McpResponse_error(UnwrapOr(id, JNull),
                                                                INVALID_REQUEST,
                                                                "Invalid JSON-RPC message")))
        ELSE IF id = None
        THEN [dispatch(app, JNull, method.value, params, uuid, environment, outcome)
                EXCEPT !.response = StatusResponse(202)]
        ELSE dispatch(app, id.value, method.value, params, uuid, environment, outcome)

\* POST /mcp
handle_rpc(app, headers, message, uuid, environment, outcome) ==
    LET jsonrpc == UnwrapOr(AsStr(Get(message, "jsonrpc")), "")
        method == AsStr(Get(message, "method"))
        id == Get(message, "id")
        params == UnwrapOr(Get(message, "params"), JObj(<<>>))
    IN  IF jsonrpc # "2.0"
        THEN Untouched(app, JsonResponse(400, McpResponse_error(UnwrapOr(id, JNull),
                                                                INVALID_REQUEST,
                                                                "Invalid JSON-RPC version")))
        ELSE IF method = None /\ (Get(message, "result") # None \/ Get(message, "error") # None)
        THEN Untouched(app, StatusResponse(202))
        ELSE IF method = None
        THEN Untouched(app, JsonResponse(400, McpResponse_error(UnwrapOr(id, JNull),
                                                                INVALID_REQUEST,
                                                                "Invalid JSON-RPC message")))
        ELSE IF id = None
        THEN Untouched(app, StatusResponse(202))
        ELSE dispatch(app, id.value, method.value, params, uuid, environment, outcome)

\* handle_sse creating a session whether or not the request names one.
handle_sse_always_creates(app, headers, uuid) ==
    LET resolved == McpSessions_create(app.mcp_sessions, app.sessions, uuid)
        session == McpSessions_get(resolved.mcp_sessions, resolved.id)
        receiver == Len(resolved.sessions[session.value].sent) + 1
        primed == next_event_seq(resolved.sessions, session.value)
        priming_event == [id |-> IntToString(primed.seq), data |-> <<>>]
    IN  [response |-> JsonResponse(200, [event_stream |-> session.value]),
         mcp_sessions |-> resolved.mcp_sessions,
         sessions |-> primed.sessions,
         opened |-> <<[session |-> session.value, start |-> receiver, next |-> receiver,
                       events |-> <<priming_event>>]>>,
         executed |-> <<>>]

\* GET /mcp: the stream is the session it reads, the position its receiver
\* started at, the position it is to read next and the events it has
\* yielded, the priming event first.
handle_sse(app, headers, uuid) ==
    LET session_id == SessionHeader(headers)
        resolved == IF session_id # None
                    THEN [id |-> session_id.value, mcp_sessions |-> app.mcp_sessions,
                          sessions |-> app.sessions]
                    ELSE McpSessions_create(app.mcp_sessions, app.sessions, uuid)
        session == McpSessions_get(resolved.mcp_sessions, resolved.id)
    IN  IF session = None
        THEN Untouched(app, JsonResponse(404, [error |-> "Unknown MCP session"]))
        ELSE LET receiver == Len(resolved.sessions[session.value].sent) + 1
                 primed == next_event_seq(resolved.sessions, session.value)
                 priming_event == [id |-> IntToString(primed.seq), data |-> <<>>]
             IN  [response |-> JsonResponse(200, [event_stream |-> session.value]),
                  mcp_sessions |-> resolved.mcp_sessions,
                  sessions |-> primed.sessions,
                  opened |-> <<[session |-> session.value, start |-> receiver,
                                next |-> receiver, events |-> <<priming_event>>]>>,
                  executed |-> <<>>]

\* DELETE /mcp
handle_delete(app, headers) ==
    LET session_id == SessionHeader(headers)
    IN  IF session_id = None
        THEN Untouched(app, JsonResponse(200, [message |-> "No session to terminate"]))
        ELSE LET r == McpSessions_remove(app.mcp_sessions, session_id.value)
             IN  [response |-> IF r.removed
                               THEN JsonResponse(200, [message |-> "Session terminated"])
                               ELSE JsonResponse(404, [error |-> "Unknown MCP session"]),
                  mcp_sessions |-> r.mcp_sessions,
                  sessions |-> app.sessions,
                  opened |-> <<>>,
                  executed |-> <<>>]

\* QueryHandler::execute: POST /query/{query_name}
query_handler_execute(app, query_name, request, environment, outcome) ==
    LET run == execute(app.executor, query_name, request.inputs, environment, outcome)
    IN  [response |->
            IF run.result.kind = "ok"
            THEN JsonResponse(200, [success |-> TRUE, error |-> <<>>,
                                    results |-> run.result.value])
            ELSE LET e == HttpErrorResponse(run.result.error)
                 IN  JsonResponse(e.status, e.body),
         mcp_sessions |-> app.mcp_sessions,
         sessions |-> app.sessions,
         opened |-> <<>>,
         executed |-> <<[query_name |-> query_name, inputs |-> request.inputs,
                         result |-> run.result, calls |-> run.calls]>>]

(***************************************************************************)
(* Requests.  http holds the request being served: it is pending until its *)
(* handler has run, and then carries the response together with the        *)
(* store, the sessions and the number of executor calls and of streams     *)
(* that the handler found (before) and left (after).                        *)
(***************************************************************************)
\* The model the executor serves: two adapters with a connector each, and a
\* query whose adapter is not declared.
ServedModel ==
    [name |-> <<"m">>,
     adapters |-> <<Adapter(<<"d">>, "postgres", <<"u">>), Adapter(<<"k">>, "redis", <<"u">>)>>,
     queries |->
        <<Query(<<"q">>, <<"d">>, PlaceholderA, <<InputNew(InputNameA, "String")>>),
          Query(<<"n">>, <<"d">>, <<"S">> \o PlaceholderEnvX, <<>>),
          Query(<<"c">>, <<"k">>, PlaceholderA, <<InputOptional(InputNameA, "Int", JNum(7))>>),
          Query(<<"w">>, <<"x">>, <<"S">>, <<>>)>>]
ServedExecutor == [model |-> ServedModel, connectors |-> {<<"d">>, <<"k">>}]

\* What a backend does with a statement.
Rows == {JArr(<<>>), JArr(<<JObj(<<<<<<"k">>, JNum(1)>>>>)>>)}
Outcomes ==
    {[ok |-> TRUE, rows |-> rows] : rows \in Rows}
    \cup {[ok |-> FALSE, raw |-> raw] : raw \in RawTexts}

\* Request headers: none, an MCP-Session-Id that reads as text, one that
\* does not.
SessionIdHeader(text) ==
    [h \in {MCP_SESSION_ID_HEADER} |-> [visible |-> TRUE, bytes |-> text]]
OpaqueSessionIdHeader ==
    [h \in {MCP_SESSION_ID_HEADER} |-> [visible |-> FALSE, bytes |-> <<"\\", "x", "f", "f">>]]

\* A JSON-RPC message of the given members, None standing for an absent one.
Member(key, opt) == IF opt = None THEN <<>> ELSE <<<<key, opt.value>>>>
Message(j, i, m, p, r, e) ==
    JObj(Member("jsonrpc", j) \o Member("id", i) \o Member("method", m)
         \o Member("params", p) \o Member("result", r) \o Member("error", e))

Methods == {"initialize", "ping", "tools/list", "tools/call", "notifications/initialized"}

\* Every combination of the members the classification looks at.
ClassifiedMessages ==
    {Message(j, i, m, None, r, e) :
        j \in {None, Some(JStr("2.0")), Some(JStr("1.0")), Some(JNum(2))},
        i \in {None, Some(JNull), Some(JNum(1))},
        m \in {None, Some(JNum(5))} \cup {Some(JStr(name)) : name \in Methods},
        r \in {None, Some(JObj(<<>>))},
        e \in {None, Some(JObj(<<>>))}}
    \cup {JArr(<<>>)}

\* tools/call, as a request and as a notification, with every shape of
\* params.
ToolNames == {<<"q">>, <<"n">>, <<"c">>, <<"w">>, <<"z">>}
ToolArguments ==
    {None, Some(JObj(<<>>)), Some(JArr(<<>>)),
     Some(JObj(<<<<InputNameA, JStr(<<"x">>)>>>>)), Some(JObj(<<<<InputNameA, JNum(1)>>>>))}
ToolParams ==
    {None}
    \cup {Some(JObj(Member("name", n) \o Member("arguments", a))) :
            n \in {None, Some(JNum(5))} \cup {Some(JStr(t)) : t \in ToolNames},
            a \in ToolArguments}
ToolCallMessages ==
    {Message(Some(JStr("2.0")), i, Some(JStr("tools/call")), p, None, None) :
        i \in {None, Some(JNum(1))}, p \in ToolParams}

McpPost(headers, message) == [route |-> "POST /mcp", headers |-> headers, message |-> message]
McpGet(headers) == [route |-> "GET /mcp", headers |-> headers]
McpDelete(headers) == [route |-> "DELETE /mcp", headers |-> headers]
QueryPost(query_name, ins) ==
    [route |-> "POST /query", query_name |-> query_name, body |-> [inputs |-> ins]]

QueryInputs ==
    {<<>>, [n \in {InputNameA} |-> JStr(<<"x">>)], [n \in {InputNameA} |-> JNum(1)]}

NoRequest == [route |-> "none"]
Found ==
    [mcp_sessions |-> mcp_sessions, sessions |-> sessions, executed |-> Len(executed),
     streams |-> Len(streams)]

\* The handler's outcome r takes effect; uuid is what Uuid::new_v4 returned
\* if the handler asked for one.
Served(r, uuid) ==
    /\ mcp_sessions' = r.mcp_sessions
    /\ sessions' = r.sessions
    /\ uuids' = IF Len(r.sessions) > Len(sessions) THEN uuids \cup {uuid} ELSE uuids
    /\ streams' = streams \o r.opened
    /\ executed' = executed \o r.executed
    /\ http' = [http EXCEPT !.pending = FALSE,
                            !.before = Found,
                            !.after = [mcp_sessions |-> r.mcp_sessions,
                                       sessions |-> r.sessions,
                                       executed |-> Len(executed) + Len(r.executed),
                                       streams |-> Len(streams) + Len(r.opened)],
                            !.response = r.response]

\* Uuid::new_v4: a v4 UUID that was not returned before.
MaxUuid == 3
FreshUuids == (1..MaxUuid) \ uuids

mcpRestVars ==
    <<statement, inputs, connector, result, validateVars, configVars, errorVars, devVars,
      shutdownVars, portVars, managerVars>>
McpRest ==
    /\ statement = <<>> /\ connector = "postgres" /\ inputs = <<>> /\ result = NoResult
    /\ ValidateIdle /\ ConfigIdle /\ ErrorIdle /\ DevIdle /\ PortIdle /\ ManagerIdle

PostMcp ==
    /\ http.pending
    /\ http.request.route = "POST /mcp"
    /\ \E uuid \in FreshUuids, outcome \in Outcomes :
          Served(handle_rpc(AppState, http.request.headers, http.request.message, uuid, env,
                            outcome), uuid)
    /\ UNCHANGED <<executor, env, mcpRestVars>>

GetMcp ==
    /\ http.pending
    /\ http.request.route = "GET /mcp"
    /\ \E uuid \in FreshUuids : Served(handle_sse(AppState, http.request.headers, uuid), uuid)
    /\ UNCHANGED <<executor, env, mcpRestVars>>

DeleteMcp ==
    /\ http.pending
    /\ http.request.route = "DELETE /mcp"
    /\ Served(handle_delete(AppState, http.request.headers), 0)
    /\ UNCHANGED <<executor, env, mcpRestVars>>

PostQuery ==
    /\ http.pending
    /\ http.request.route = "POST /query"
    /\ \E outcome \in Outcomes :
          Served(query_handler_execute(AppState, http.request.query_name, http.request.body,
                                       env, outcome), 0)
    /\ UNCHANGED <<executor, env, mcpRestVars>>

(***************************************************************************)
(* One request against a store that is empty or holds one session: the     *)
(* request is drawn in the initial state, its handler is the step.          *)
(***************************************************************************)
RequestInit ==
    /\ executor = ServedExecutor
    /\ env \in Environments
    /\ \/ mcp_sessions = <<>> /\ sessions = <<>> /\ uuids = {}
       \/ /\ mcp_sessions = [id \in {UuidToString(1)} |-> 1]
          /\ sessions = <<McpSession_new>>
          /\ uuids = {1}
    /\ streams = <<>>
    /\ executed = <<>>
    /\ \E request \in
            {McpPost(h, m) :
                h \in {NoHeaders, SessionIdHeader(UuidToString(1)),
                       SessionIdHeader(UuidToString(2)), OpaqueSessionIdHeader},
                m \in ClassifiedMessages \cup ToolCallMessages}
            \cup {QueryPost(n, i) : n \in ToolNames, i \in QueryInputs} :
          http = [n |-> 1, pending |-> TRUE, request |-> request, before |-> Found,
                  after |-> Found, response |-> NoResponse]
    /\ McpRest

RequestNext == PostMcp \/ PostQuery

SpecRequest == RequestInit /\ [][RequestNext]_vars

(***************************************************************************)
(* The MCP transport over time: requests arrive one after the other, each  *)
(* handler runs under the store's lock; values are sent on the sessions'   *)
(* channels and the open streams relay them.                                *)
(***************************************************************************)
MaxHttpRequests == 3
MaxStreams == 2
MaxStreamSessions == 1
MaxPublished == 2
\* The event counter is not followed beyond this value.
MaxEventSeq == 4

LifecycleHeaders ==
    {NoHeaders, OpaqueSessionIdHeader, SessionIdHeader(<<"x">>)}
    \cup {SessionIdHeader(UuidToString(u)) : u \in 1..MaxUuid}

LifecycleMessages ==
    {Message(Some(JStr("2.0")), i, Some(JStr("initialize")), None, None, None) :
        i \in {None, Some(JNum(1))}}
    \cup {Message(Some(JStr("2.0")), Some(JNum(1)), Some(JStr("ping")), None, None, None)}

LifecycleRequests ==
    {McpPost(h, m) : h \in {NoHeaders, SessionIdHeader(UuidToString(1))},
                     m \in LifecycleMessages}
    \cup {McpGet(h) : h \in LifecycleHeaders}
    \cup {McpDelete(h) : h \in LifecycleHeaders}

\* The values sent on a channel are told apart by their place: the n-th is
\* the number n or an object holding it.
PublishedValue(n) == IF n % 2 = 1 THEN JNum(n) ELSE JObj(<<<<<<"k">>, JNum(n)>>>>)

McpInit ==
    /\ executor = ServedExecutor
    /\ env = <<>>
    /\ mcp_sessions = <<>>
    /\ sessions = <<>>
    /\ uuids = {}
    /\ streams = <<>>
    /\ executed = <<>>
    /\ http = [n |-> 0, pending |-> FALSE, request |-> NoRequest, before |-> Found,
               after |-> Found, response |-> NoResponse]
    /\ McpRest

\* A client sends a request.
Arrive ==
    /\ ~http.pending
    /\ http.n < MaxHttpRequests
    /\ FreshUuids # {}
    /\ \E request \in LifecycleRequests :
          http' = [n |-> http.n + 1, pending |-> TRUE, request |-> request, before |-> Found,
                   after |-> Found, response |-> NoResponse]
    /\ UNCHANGED <<executor, mcp_sessions, sessions, uuids, streams, executed, env, mcpRestVars>>

\* The receivers of session k: the streams open on it.
Receivers(k) == {i \in 1..Len(streams) : streams[i].session = k}

\* A holder of the session sends a value on its channel (session.tx.send).
Publish ==
    \E k \in 1..Len(sessions) :
        /\ Receivers(k) # {}
        /\ Len(sessions[k].sent) < MaxPublished
        /\ sessions' = broadcast_send(sessions, k, PublishedValue(Len(sessions[k].sent) + 1),
                                      Cardinality(Receivers(k)))
        /\ UNCHANGED <<executor, mcp_sessions, uuids, streams, executed, http, env, mcpRestVars>>

\* A stream is polled past its priming event: its receiver yields the next
\* value, which becomes an event, or reports a lag, which is dropped.
StreamNext ==
    \E i \in 1..Len(streams) :
        LET k == streams[i].session
            msg == broadcast_recv(sessions[k], streams[i].next)
        IN  /\ msg.kind # "empty"
            /\ sessions[k].counter <= MaxEventSeq
            /\ IF msg.kind = "value"
               THEN LET seq == next_event_seq(sessions, k)
                        event == [id |-> IntToString(seq.seq), data |-> JsonToString(msg.value)]
                    IN  /\ sessions' = seq.sessions
                        /\ streams' = [streams EXCEPT ![i].next = msg.next,
                                                      ![i].events = Append(@, event)]
               ELSE /\ streams' = [streams EXCEPT ![i].next = msg.next]
                    /\ UNCHANGED sessions
            /\ UNCHANGED <<executor, mcp_sessions, uuids, executed, http, env, mcpRestVars>>

McpNext == Arrive \/ PostMcp \/ GetMcp \/ DeleteMcp

SpecMcp == McpInit /\ [][McpNext]_vars

\* The streams alone: the requests are GETs, without a session id or with
\* the id of a session in the store.
ArriveGet ==
    /\ ~http.pending
    /\ http.n < MaxStreams
    /\ FreshUuids # {}
    /\ \E request \in {McpGet(NoHeaders) : n \in 1..(MaxStreamSessions - Len(sessions))}
                        \cup {McpGet(SessionIdHeader(id)) : id \in DOMAIN mcp_sessions} :
          http' = [n |-> http.n + 1, pending |-> TRUE, request |-> request, before |-> Found,
                   after |-> Found, response |-> NoResponse]
    /\ UNCHANGED <<executor, mcp_sessions, sessions, uuids, streams, executed, env, mcpRestVars>>

SseNext == ArriveGet \/ GetMcp \/ Publish \/ StreamNext

SpecSse == McpInit /\ [][SseNext]_vars

\* The request served last, if it was a POST /mcp, and the answer to it.
RpcServed == ~http.pending /\ http.request.route = "POST /mcp"
RpcMember(key) == Get(http.request.message, key)
IsVersion2 == RpcMember("jsonrpc") = Some(JStr("2.0"))
\* The message has a method, a name.
HasMethod == \E name \in Methods : RpcMember("method") = Some(JStr(name))
RpcMethod == RpcMember("method").value.s
IsRequest == IsVersion2 /\ HasMethod /\ RpcMember("id") # None
HasErrorCode(r, code) ==
    /\ r.body # None
    /\ r.body.value.error # None
    /\ r.body.value.error.value.code = code
HeaderChoices ==
    {NoHeaders, SessionIdHeader(UuidToString(1)), SessionIdHeader(UuidToString(2)),
     OpaqueSessionIdHeader}
\* The application state the request found.
AppFound ==
    [executor |-> executor, mcp_sessions |-> http.before.mcp_sessions,
     sessions |-> http.before.sessions]

\* C11: POST /mcp answers a message whose jsonrpc is not "2.0" with 400 and
\* the error code -32600; otherwise a message without a method and with a
\* result or an error with 202; otherwise a message with a method and
\* without an id with 202; otherwise it dispatches on the method, and a
\* method that is none of initialize, ping, tools/list and tools/call is
\* answered with the JSON-RPC error -32601 and the id of the request.  The
\* answer is the same whatever MCP-Session-Id header the request carries,
\* none included.
C11_ClassificationOrder ==
    RpcServed =>
        LET r == http.response
        IN  /\ ~IsVersion2 => r.status = 400 /\ HasErrorCode(r, -32600)
            /\ (IsVersion2 /\ ~HasMethod /\ RpcMember("method") = None
                /\ (RpcMember("result") # None \/ RpcMember("error") # None))
                  => r = StatusResponse(202)
            /\ (IsVersion2 /\ HasMethod /\ RpcMember("id") = None) => r = StatusResponse(202)
            /\ (IsRequest /\ RpcMethod \notin {"initialize", "ping", "tools/list", "tools/call"})
                  => /\ HasErrorCode(r, -32601)
                     /\ r.body.value.id = RpcMember("id").value
                     /\ r.body.value.result = None
            /\ (IsRequest /\ RpcMethod \in {"initialize", "ping", "tools/list"})
                  => /\ r.status = 200
                     /\ r.body.value.result # None
                     /\ r.body.value.id = RpcMember("id").value
            /\ \A h \in HeaderChoices :
                  \E u \in 1..MaxUuid, o \in Outcomes :
                      handle_rpc(AppFound, h, http.request.message, u, env, o).response = r

\* C11 witness: a request with an unknown method and an MCP-Session-Id that
\* names no session was answered with -32601.
C11_Witness ==
    /\ RpcServed
    /\ IsRequest
    /\ RpcMethod = "notifications/initialized"
    /\ http.request.headers = SessionIdHeader(UuidToString(2))
    /\ HasErrorCode(http.response, -32601)

StoreUntouched ==
    /\ http.after.mcp_sessions = http.before.mcp_sessions
    /\ http.after.sessions = http.before.sessions
    /\ http.after.executed = http.before.executed
    /\ http.after.streams = http.before.streams

\* C12: a POST /mcp message acknowledged with 202, a client response or a
\* notification, changes nothing: the store and the sessions are as the
\* request found them and the executor was not called, also when the
\* notification's method is initialize or tools/call.
C12_AcknowledgedChangesNothing ==
    (RpcServed /\ http.response.status = 202) => StoreUntouched

\* C12 witness: a notification whose method is initialize was acknowledged
\* with 202.
C12_Witness ==
    /\ RpcServed
    /\ http.response = StatusResponse(202)
    /\ RpcMember("id") = None
    /\ RpcMember("method") = Some(JStr("initialize"))

\* The call of the executor the last request made.
LastCall == executed[Len(executed)]
CallFailed == Len(executed) > http.before.executed /\ LastCall.result.kind = "err"

\* C13: a tools/call request that carries a tool name and whose execution
\* fails is answered with HTTP 200 and a JSON-RPC success envelope, result
\* present and error absent, whose result has isError = true and whose
\* content[0].text is "Error: " followed by the sanitized message.
C13_ToolErrorEnvelope ==
    (RpcServed /\ IsRequest /\ RpcMethod = "tools/call" /\ CallFailed) =>
        LET r == http.response
        IN  /\ r.status = 200
            /\ r.body # None
            /\ r.body.value.error = None
            /\ r.body.value.result # None
            /\ r.body.value.id = RpcMember("id").value
            /\ r.body.value.result.value.isError = TRUE
            /\ r.body.value.result.value.content[1].text
                  = <<"Error: ">> \o sanitized_message(LastCall.result.error)

\* C13 witness: a tools/call whose backend failed was answered.
C13_Witness ==
    /\ RpcServed /\ IsRequest /\ RpcMethod = "tools/call" /\ CallFailed
    /\ LastCall.calls = 1
    /\ LastCall.result.error.kind = "QueryExecution"

QueryServed == ~http.pending /\ http.request.route = "POST /query"

\* C18: the status of a failed POST /query/{name} follows from the kind of
\* the error alone: 404 for QueryNotFound and AdapterNotFound, 400 for
\* MissingInput, InvalidInputType, Validation and InputValidation, 500 for
\* every other kind; the envelope has success = false and results = [].
C18_StatusByKind ==
    (QueryServed /\ CallFailed) =>
        LET kind == LastCall.result.error.kind
            r == http.response
        IN  /\ kind \in {"QueryNotFound", "AdapterNotFound"} => r.status = 404
            /\ kind \in {"MissingInput", "InvalidInputType", "Validation", "InputValidation"}
                  => r.status = 400
            /\ kind \notin {"QueryNotFound", "AdapterNotFound", "MissingInput",
                            "InvalidInputType", "Validation", "InputValidation"}
                  => r.status = 500
            /\ r.body.value.success = FALSE
            /\ r.body.value.results = <<>>

\* C18 witness: a query whose input is of the wrong type was answered with
\* 400.
C18_Witness ==
    /\ QueryServed /\ CallFailed
    /\ LastCall.result.error.kind = "InvalidInputType"
    /\ http.response.status = 400

\* What the last request was and what it carried.
LastServed(route) == ~http.pending /\ http.request.route = route
InitializeServed ==
    /\ LastServed("POST /mcp")
    /\ IsRequest
    /\ RpcMethod = "initialize"
\* The session id the request named, if its header reads as text.
NamedSession == SessionHeader(http.request.headers)
HeaderPresent == MCP_SESSION_ID_HEADER \in DOMAIN http.request.headers
AddedIds == DOMAIN http.after.mcp_sessions \ DOMAIN http.before.mcp_sessions
RemovedIds == DOMAIN http.before.mcp_sessions \ DOMAIN http.after.mcp_sessions
\* Every session the request found in the store is in it afterwards, is the
\* same session and is as it was.
OldSessionsKept ==
    /\ \A id \in DOMAIN http.before.mcp_sessions \ RemovedIds :
          http.after.mcp_sessions[id] = http.before.mcp_sessions[id]
    /\ \A k \in 1..Len(http.before.sessions) : http.after.sessions[k] = http.before.sessions[k]

\* C14: an initialize request adds exactly one session to the store, under
\* an id that was not in the store before, returns that id, a UUID, in the
\* MCP-Session-Id response header, and leaves every session that was in the
\* store there and unchanged.
C14_InitializeAddsOneSession ==
    InitializeServed =>
        /\ Cardinality(AddedIds) = 1
        /\ RemovedIds = {}
        /\ OldSessionsKept
        /\ Len(http.after.sessions) = Len(http.before.sessions) + 1
        /\ MCP_SESSION_ID_HEADER \in DOMAIN http.response.headers
        /\ http.response.headers[MCP_SESSION_ID_HEADER] \in AddedIds
        /\ UuidParses(http.response.headers[MCP_SESSION_ID_HEADER])
        /\ http.response.status = 200

\* C14 witness: an initialize was served while a session was in the store.
C14_Witness ==
    /\ InitializeServed
    /\ DOMAIN http.before.mcp_sessions # {}
    /\ Cardinality(DOMAIN http.after.mcp_sessions) = 2

\* The store never loses a session but to the DELETE that names it, and an
\* id that was removed does not come back.
RemovedOnlyByDelete ==
    \A id \in DOMAIN mcp_sessions :
        id \notin DOMAIN mcp_sessions' =>
            /\ http.pending
            /\ http.request.route = "DELETE /mcp"
            /\ NamedSession = Some(id)
StaysRemoved ==
    \A u \in uuids :
        UuidToString(u) \notin DOMAIN mcp_sessions => UuidToString(u) \notin DOMAIN mcp_sessions'

DeleteAnswer ==
    LastServed("DELETE /mcp") =>
        /\ (NamedSession # None /\ NamedSession.value \in DOMAIN http.before.mcp_sessions)
              => /\ http.response.status = 200
                 /\ RemovedIds = {NamedSession.value}
                 /\ AddedIds = {}
                 /\ OldSessionsKept
                 /\ Len(http.after.sessions) = Len(http.before.sessions)
        /\ (NamedSession # None /\ NamedSession.value \notin DOMAIN http.before.mcp_sessions)
              => http.response.status = 404 /\ StoreUntouched
        /\ ~HeaderPresent => http.response.status = 200 /\ StoreUntouched

\* C15: DELETE /mcp with an MCP-Session-Id that is in the store removes
\* exactly that session and returns 200; with an id that is not in the store
\* it returns 404 and with no header 200, the store unchanged in both cases.
\* So a second DELETE of the same id returns 404: a removed id does not come
\* back; and a session stays in the store until a DELETE names it.
C15_DeleteRemovesNamedSession ==
    []DeleteAnswer /\ [][RemovedOnlyByDelete /\ StaysRemoved]_vars

\* C15 witness: the id of a session that a DELETE had removed was named by a
\* second DELETE, which was answered with 404.
C15_Witness ==
    /\ LastServed("DELETE /mcp")
    /\ http.response.status = 404
    /\ NamedSession # None
    /\ \E u \in uuids : NamedSession.value = UuidToString(u)

\* The stream the last request opened, if it opened one.
StreamOpened == http.after.streams = http.before.streams + 1
OpenedStream == streams[http.after.streams]

\* C16 (as claimed): a GET /mcp that carries an MCP-Session-Id header opens
\* its event stream on the session with that id and adds no session to the
\* store; a GET /mcp without the header adds exactly one new session to the
\* store and opens its stream on that session.
C16_SseSessionClaim ==
    LastServed("GET /mcp") =>
        /\ HeaderPresent
              => /\ StreamOpened
                 /\ NamedSession # None
                 /\ NamedSession.value \in DOMAIN http.before.mcp_sessions
                 /\ OpenedStream.session = http.before.mcp_sessions[NamedSession.value]
                 /\ AddedIds = {}
        /\ ~HeaderPresent
              => /\ Cardinality(AddedIds) = 1
                 /\ StreamOpened
                 /\ \E id \in AddedIds : OpenedStream.session = http.after.mcp_sessions[id]

\* C16 (amended): a GET /mcp whose MCP-Session-Id header names a session in
\* the store opens its event stream on that session and adds no session; one
\* whose header names no session in the store is answered with 404, opens no
\* stream and adds no session; a GET /mcp without the header, or with a
\* header value that does not read as text, adds exactly one new session and
\* opens its stream on that session.  No GET removes or changes a session
\* but for the event counter of the session it opens its stream on.
C16_SseSession ==
    LastServed("GET /mcp") =>
        /\ (NamedSession # None /\ NamedSession.value \in DOMAIN http.before.mcp_sessions)
              => /\ http.response.status = 200
                 /\ StreamOpened
                 /\ OpenedStream.session = http.before.mcp_sessions[NamedSession.value]
                 /\ http.after.mcp_sessions = http.before.mcp_sessions
                 /\ Len(http.after.sessions) = Len(http.before.sessions)
        /\ (NamedSession # None /\ NamedSession.value \notin DOMAIN http.before.mcp_sessions)
              => http.response.status = 404 /\ StoreUntouched
        /\ NamedSession = None
              => /\ http.response.status = 200
                 /\ Cardinality(AddedIds) = 1
                 /\ RemovedIds = {}
                 /\ Len(http.after.sessions) = Len(http.before.sessions) + 1
                 /\ StreamOpened
                 /\ \E id \in AddedIds : OpenedStream.session = http.after.mcp_sessions[id]
        /\ \A id \in DOMAIN http.before.mcp_sessions :
              http.after.mcp_sessions[id] = http.before.mcp_sessions[id]
        /\ \A k \in 1..Len(http.before.sessions) :
              http.after.sessions[k].sent = http.before.sessions[k].sent

\* C16 witness: a GET that named a session of the store was given a stream
\* on it, a second session being in the store.
C16_Witness ==
    /\ LastServed("GET /mcp")
    /\ NamedSession # None
    /\ NamedSession.value \in DOMAIN http.before.mcp_sessions
    /\ StreamOpened
    /\ Cardinality(DOMAIN mcp_sessions) = 2

\* The events of stream i past the priming event, and the values sent on its
\* session's channel from its subscription on.
Relayed(i) == SubSeq(streams[i].events, 2, Len(streams[i].events))
PublishedSince(i) ==
    SubSeq(sessions[streams[i].session].sent, streams[i].start,
           Len(sessions[streams[i].session].sent))
\* evs carry, in order, values of vals at increasing places.
RelaysInOrder(evs, vals) ==
    \E place \in [1..Len(evs) -> 1..Len(vals)] :
        /\ \A e \in 1..Len(evs) : evs[e].data = JsonToString(vals[place[e]])
        /\ \A e \in 1..(Len(evs) - 1) : place[e] < place[e + 1]
EventIdsIncrease(evs) ==
    \A e \in 1..(Len(evs) - 1) : DecimalValue(evs[e].id) < DecimalValue(evs[e + 1].id)

\* C17: on every stream opened by GET /mcp the first event is the priming
\* event, with empty data; every later event carries one JSON value sent on
\* the session's channel after the subscription; the relayed values are a
\* subsequence of the sent values in the order they were sent, none twice;
\* and the event ids of the stream increase strictly, also when several
\* streams are open on one session.
C17_StreamRelaysInOrder ==
    \A i \in 1..Len(streams) :
        /\ streams[i].events # <<>>
        /\ streams[i].events[1].data = <<>>
        /\ \A e \in 1..Len(Relayed(i)) : Relayed(i)[e].data # <<>>
        /\ Relayed(i) = <<>> \/ RelaysInOrder(Relayed(i), PublishedSince(i))
        /\ EventIdsIncrease(streams[i].events)
        /\ \A j \in 1..Len(streams) :
              (j # i /\ streams[j].session = streams[i].session) =>
                  \A e \in 1..Len(streams[i].events), f \in 1..Len(streams[j].events) :
                      streams[i].events[e].id # streams[j].events[f].id

\* C17 witness: two streams are open on one session; one relayed a value
\* after it had lagged and lost an earlier one, the other relayed too, and
\* their event ids interleave.
C17_Witness ==
    \E i, j \in 1..Len(streams) :
        /\ i # j
        /\ streams[i].session = streams[j].session
        /\ Len(Relayed(i)) >= 1
        /\ Len(Relayed(j)) >= 1
        /\ Len(PublishedSince(i)) = 2
        /\ Relayed(i)[1].data = JsonToString(PublishedSince(i)[2])

(***************************************************************************)
(* The port override (runtime/server.rs, core/domain/model.rs).  A Model   *)
(* is here its server section, an Option<ServerConfig> whose port is an    *)
(* Option<String>; the override is an Option<u16>.                         *)
(***************************************************************************)
U16Max == 65535
DefaultPort == 8080

\* u16::to_string
U16ToString(port) == NatToString(port)

\* str::parse::<u16>: an optional plus sign, then one digit or more, the
\* number they denote being at most u16::MAX.
ParseU16(text) ==
    LET ds == IF text # <<>> /\ text[1] = "+" THEN Tail(text) ELSE text
    IN  IF ds = <<>> \/ \E i \in 1..Len(ds) : ds[i] \notin Digits THEN None
        ELSE IF DecimalValue(ds) > U16Max THEN None
        ELSE Some(DecimalValue(ds))

\* Model::port
port(m) ==
    LET text == IF m.server = None THEN None ELSE m.server.value.port
        parsed == IF text = None THEN None ELSE ParseU16(text.value)
    IN  IF parsed = None THEN DefaultPort ELSE parsed.value

\* The override applied only to a model that has a server section.
apply_port_override_existing_only(m, override) ==
    IF override # None /\ m.server # None
    THEN [m EXCEPT !.server = Some([m.server.value EXCEPT !.port = Some(U16ToString(override.value))])]
    ELSE m

apply_port_override(m, override) ==
    IF override # None
    THEN IF m.server # None
         THEN [m EXCEPT !.server =
                  Some([m.server.value EXCEPT !.port = Some(U16ToString(override.value))])]
         ELSE [m EXCEPT !.server =
                  Some([port |-> Some(U16ToString(override.value)), log_level |-> None,
                        pool |-> None])]
    ELSE m

\* The documents: no server section, one without a port, and ones whose port
\* is a number, a number with a sign or with leading zeros, a number above
\* u16::MAX and no number.
PortTexts ==
    {<<"3", "0", "0", "0">>, <<"+", "8", "0">>, <<"0", "0", "8", "0">>,
     <<"7", "0", "0", "0", "0">>, <<"a">>}
ServerSections ==
    {None}
    \cup {Some([port |-> pt, log_level |-> l, pool |-> None]) :
            pt \in {None} \cup {Some(t) : t \in PortTexts}, l \in {None, Some(1)}}
PortModel(server) == [name |-> <<"m">>, adapters |-> <<>>, queries |-> <<>>, server |-> server]
Documents == {PortModel(server) : server \in ServerSections}
PortOverrides == {None} \cup {Some(p) : p \in {0, 80, DefaultPort, U16Max}}

MaxReloads == 2

portRestVars ==
    <<substVars, validateVars, configVars, errorVars, devVars, shutdownVars, mcpVars,
      managerVars>>
PortRest ==
    /\ statement = <<>> /\ connector = "postgres" /\ inputs = <<>> /\ env = <<>>
    /\ result = NoResult
    /\ ValidateIdle /\ ConfigIdle /\ ErrorIdle /\ DevIdle /\ McpIdle /\ ManagerIdle

\* Runtime::with_port_override has returned Ok: the model is the parsed
\* document with the override applied, and the override is kept.
PortInit ==
    /\ port_override \in PortOverrides
    /\ parsed_model \in Documents
    /\ runtime_model = apply_port_override(parsed_model, port_override)
    /\ reloads = 0
    /\ PortRest

\* The configuration is parsed again (parse_file in the reload handler).
ParseFile ==
    /\ reloads < MaxReloads
    /\ \E new_model \in Documents : parsed_model' = new_model
    /\ UNCHANGED <<port_override, runtime_model, reloads, portRestVars>>

\* Runtime::reload(parsed_model): ok is whether connectors.initialize
\* returned Ok; when it did not, `?` returns before self.model is assigned.
Reload ==
    /\ reloads < MaxReloads
    /\ \E ok \in BOOLEAN :
          IF ok
          THEN /\ runtime_model' = apply_port_override(parsed_model, port_override)
               /\ reloads' = reloads + 1
          ELSE UNCHANGED <<runtime_model, reloads>>
    /\ UNCHANGED <<port_override, parsed_model, portRestVars>>

PortNext == ParseFile \/ Reload

SpecPort == PortInit /\ [][PortNext]_vars

OverrideHolds == port_override # None => port(runtime_model) = port_override.value
\* Without an override the model is the document, at creation and whenever
\* a reload replaces it.
AsParsedAtCreation == port_override = None => runtime_model = parsed_model
AsParsedAfterReload ==
    (port_override = None /\ reloads' = reloads + 1) => runtime_model' = parsed_model

\* C19: a runtime created with the port override Some(p) has a model whose
\* port() is p, at creation and after every reload that succeeded, whether
\* the document, the original or a reloaded one, has no server section, one
\* without a port or one with another port; with the override None the
\* model's server section is as it was parsed.
C19_PortOverrideCarried ==
    /\ AsParsedAtCreation
    /\ []OverrideHolds
    /\ [][AsParsedAfterReload]_vars

\* C19 witness: with the override 80, a second reload has succeeded, of a
\* document without a server section, and port() is 80.
C19_Witness ==
    /\ port_override = Some(80)
    /\ reloads = 2
    /\ parsed_model.server = None
    /\ runtime_model = apply_port_override(parsed_model, port_override)
    /\ port(runtime_model) = 80

\* The shutdown has closed the connectors: Runtime::run is past
\* self.shutdown().
ShutDown == main_pc \in {"stopped", "cleanup", "done"}
\* From the signal on no request is accepted.
StopsAccepting == main_pc # "serving" => Len(requests') = Len(requests)
\* While the server drains, the shutdown closes nothing, and the step in
\* which it closes the connectors is taken with no request in flight.
ClosesAfterDrain ==
    /\ (main_pc = "draining" /\ main_pc' = "draining") => managers' = managers
    /\ (main_pc = "draining" /\ main_pc' = "stopped")
          => \A i \in 1..Len(requests) : requests[i].pc = "done"
\* Once the connectors are closed no request is executing, and run has
\* returned Ok whether or not a close failed.
NothingInFlightAfterShutdown ==
    ShutDown =>
        /\ \A i \in 1..Len(requests) : requests[i].pc = "done"
        /\ run_result = OkUnit
RunsWhileServing == ~ShutDown => run_result = NoResult /\ close_errors = <<>>

\* C20: on the shutdown signal the server stops accepting requests and lets
\* the requests in flight finish, and only then does shutdown call close_all:
\* no connector is closed by the shutdown while a request is executing; a
\* failure of close_all is recorded and neither shutdown nor run returns an
\* error for it.
C20_ShutdownDrainsThenCloses ==
    /\ [](NothingInFlightAfterShutdown /\ RunsWhileServing)
    /\ [][StopsAccepting /\ ClosesAfterDrain]_vars

\* C20 witness: a request was served, the signal came, and the close of the
\* connector failed inside the shutdown: run has returned Ok.
C20_Witness ==
    /\ main_pc = "stopped"
    /\ Len(requests) >= 1
    /\ close_errors # <<>>
    /\ run_result = OkUnit

(***************************************************************************)
(* QueryExecutor::execute on its own: the executor is built over the       *)
(* served model and a manager that holds a connector for some of the       *)
(* adapter names (QueryExecutor::new takes any manager); the call is drawn *)
(* in the initial state.                                                    *)
(***************************************************************************)
ManagedNames == {<<"d">>, <<"k">>, <<"x">>}
Executors == {[model |-> ServedModel, connectors |-> c] : c \in SUBSET ManagedNames}

ExecuteInit ==
    /\ executor \in Executors
    /\ env \in Environments
    /\ mcp_sessions = <<>> /\ sessions = <<>> /\ uuids = {} /\ streams = <<>>
    /\ executed = <<>>
    /\ \E request \in {QueryPost(n, i) : n \in ToolNames, i \in QueryInputs} :
          http = [n |-> 1, pending |-> TRUE, request |-> request, before |-> Found,
                  after |-> Found, response |-> NoResponse]
    /\ McpRest

\* executor.execute(query_name, inputs)
ExecuteQuery ==
    /\ http.pending
    /\ \E outcome \in Outcomes :
          LET run == execute(executor, http.request.query_name, http.request.body.inputs, env,
                             outcome)
          IN  executed' = <<[query_name |-> http.request.query_name,
                             inputs |-> http.request.body.inputs,
                             outcome |-> outcome,
                             result |-> run.result, calls |-> run.calls, steps |-> run.steps]>>
    /\ http' = [http EXCEPT !.pending = FALSE]
    /\ UNCHANGED <<executor, env, mcp_sessions, sessions, uuids, streams, mcpRestVars>>

SpecExecute == ExecuteInit /\ [][ExecuteQuery]_vars

\* The call that was made, and what each step of it gives on its own.
Call == executed[1]
CallQuery == find_query(executor.model, Call.query_name)
CallValidated == validate(CallQuery.value, Call.inputs)
CallAdapter == find_adapter(executor.model, CallQuery.value.adapter)
CallConnector == manager_get(executor.connectors, CallQuery.value.adapter)
CallStatement ==
    substitute(CallQuery.value.statement, CallValidated.value, CallAdapter.value.connector, env)
\* Step a comes before step b in the steps of the call.
StepBefore(a, b) ==
    \E i, j \in 1..Len(Call.steps) : i < j /\ Call.steps[i] = a /\ Call.steps[j] = b
StepCount(a) == Cardinality({i \in 1..Len(Call.steps) : Call.steps[i] = a})

\* C21: execute invokes the connector's execute at most once a call, and
\* only after the query lookup, the validation of the inputs and the
\* substitution of the statement have succeeded, in that order; when one of
\* them fails no backend call is made.
C21_DispatchAfterValidationAndSubstitution ==
    executed # <<>> =>
        /\ Call.calls = StepCount("connector.execute")
        /\ Call.calls <= 1
        /\ Call.calls = 1 =>
              /\ StepBefore("find_query", "validate")
              /\ StepBefore("validate", "substitute")
              /\ StepBefore("substitute", "connector.execute")
              /\ CallQuery # None
              /\ CallValidated.kind = "ok"
              /\ CallStatement.kind = "ok"
              /\ Call.result = connector_execute(CallAdapter.value.connector,
                                                 CallStatement.value, Call.outcome)
        /\ CallQuery = None => Call.calls = 0
        /\ (CallQuery # None /\ CallValidated.kind = "err") => Call.calls = 0
        /\ (CallQuery # None /\ CallValidated.kind = "ok" /\ CallAdapter # None
            /\ CallStatement.kind = "err") => Call.calls = 0

\* C21 witness: a call with an input that was defaulted reached the backend,
\* which failed.
C21_Witness ==
    /\ executed # <<>>
    /\ Call.calls = 1
    /\ Call.inputs = <<>>
    /\ CallValidated.value # <<>>
    /\ Call.result.kind = "err"

\* C22 (as claimed): execute returns the error of the first step that fails
\* in the order query lookup, validation, adapter lookup in the model,
\* substitution, get on the connector manager, connector execute: a failing
\* substitution is reported even when the manager has no connector for the
\* adapter.
C22_FirstFailureClaim ==
    executed # <<>> =>
        Call.result =
            IF CallQuery = None
            THEN Err([kind |-> "QueryNotFound", name |-> Call.query_name])
            ELSE IF CallValidated.kind = "err" THEN CallValidated
            ELSE IF CallAdapter = None
            THEN Err([kind |-> "AdapterNotFound", name |-> CallQuery.value.adapter])
            ELSE IF CallStatement.kind = "err" THEN CallStatement
            ELSE IF CallConnector.kind = "err" THEN CallConnector
            ELSE connector_execute(CallAdapter.value.connector, CallStatement.value,
                                   Call.outcome)

(***************************************************************************)
(* ConnectorManager (runtime/connectors/manager.rs).  The map is a         *)
(* function from adapter names to connectors behind a tokio RwLock, a      *)
(* connector being the adapter it was constructed for.  initialize spawns  *)
(* one construction task an adapter, takes the write lock and inserts the  *)
(* results in the order the tasks end; whether a backend can be connected  *)
(* to is an input.                                                          *)
(***************************************************************************)
MaxManagedAdapters == 2

\* An adapter and whether its backend accepts the connection.
ManagedAdapter(name, kind, connects) ==
    [name |-> name, connector |-> kind, url |-> <<"u">>, connects |-> connects]
ManagedAdapters ==
    {ManagedAdapter(n, k, c) : n \in ManagedNames, k \in {"postgres", "redis"}, c \in BOOLEAN}
\* Lists of adapters of distinct names, as ConfigValidator accepts them.
AdapterLists ==
    UNION {{l \in [1..n -> ManagedAdapters] : \A i, j \in 1..n : i # j => l[i].name # l[j].name} :
              n \in 0..MaxManagedAdapters}

\* ConnectorManager::create_connector
create_connector(adapter) ==
    IF adapter.connects
    THEN Ok([adapter |-> adapter.name, kind |-> adapter.connector, url |-> adapter.url])
    ELSE Err(BackendError(adapter.connector, "construct", "connection refused"))

\* A construction task registering every connector under one name.
spawned_task_one_name(adapter) ==
    LET created == create_connector(adapter)
    IN  IF created.kind = "err" THEN created ELSE Ok(<<<<"d">>, created.value>>)

\* The task initialize spawns for an adapter.
spawned_task(adapter) ==
    LET created == create_connector(adapter)
    IN  IF created.kind = "err" THEN created ELSE Ok(<<adapter.name, created.value>>)

\* ConnectorManager::new
ConnectorManager_new == [connectors |-> <<>>, readers |-> 0, writer |-> FALSE]

\* RwLock::write and RwLock::read are granted.
MapCanWrite == manager.readers = 0 /\ ~manager.writer
MapCanRead == ~manager.writer

\* ConnectorManager::get under the read guard.
ConnectorManager_get(map, name) ==
    LET r == manager_get(DOMAIN map, name)
    IN  IF r.kind = "ok" THEN Ok(map[name]) ELSE r

managerRestVars ==
    <<substVars, validateVars, configVars, errorVars, devVars, shutdownVars, mcpVars, portVars>>
ManagerRest ==
    /\ statement = <<>> /\ connector = "postgres" /\ inputs = <<>> /\ env = <<>>
    /\ result = NoResult
    /\ ValidateIdle /\ ConfigIdle /\ ErrorIdle /\ DevIdle /\ McpIdle /\ PortIdle

\* initialize has spawned its tasks on a new manager; a get has been called.
InitializeInit ==
    /\ manager = ConnectorManager_new
    /\ \E adapters \in AdapterLists :
          join_set = [tasks |-> [i \in 1..Len(adapters) |->
                                    [adapter |-> adapters[i], pc |-> "running"]],
                      ready |-> <<>>]
    /\ init_call = [pc |-> "spawned"]
    /\ \E name \in ManagedNames : get_call = [pc |-> "called", name |-> name]
    /\ close_call = NoCall /\ health_call = NoCall /\ write_call = NoCall
    /\ ManagerRest

\* A construction task ends.
TaskFinishes ==
    \E i \in 1..Len(join_set.tasks) :
        /\ join_set.tasks[i].pc = "running"
        /\ join_set' = [tasks |-> [join_set.tasks EXCEPT ![i] =
                                      [adapter |-> @.adapter, pc |-> "finished",
                                       output |-> spawned_task(@.adapter)]],
                        ready |-> Append(join_set.ready, i)]
        /\ UNCHANGED <<manager, init_call, get_call, close_call, health_call, write_call,
                       managerRestVars>>

\* self.connectors.write().await
InitLocks ==
    /\ init_call.pc = "spawned"
    /\ MapCanWrite
    /\ manager' = [manager EXCEPT !.writer = TRUE]
    /\ init_call' = [pc |-> "collecting"]
    /\ UNCHANGED <<join_set, get_call, close_call, health_call, write_call, managerRestVars>>

\* set.join_next().await yields the task that ended first: its connector is
\* inserted, or its error returned, the guard and the JoinSet being dropped,
\* which aborts the tasks still running.
InitJoins ==
    /\ init_call.pc = "collecting"
    /\ join_set.ready # <<>>
    /\ LET i == Head(join_set.ready)
           output == join_set.tasks[i].output
       IN  IF output.kind = "ok"
           THEN /\ manager' = [manager EXCEPT !.connectors =
                                  Insert(@, output.value[1], output.value[2])]
                /\ join_set' = [tasks |-> [join_set.tasks EXCEPT ![i].pc = "joined"],
                                ready |-> Tail(join_set.ready)]
                /\ UNCHANGED init_call
           ELSE /\ manager' = [manager EXCEPT !.writer = FALSE]
                /\ join_set' = [tasks |-> [j \in 1..Len(join_set.tasks) |->
                                              IF j = i
                                              THEN [join_set.tasks[j] EXCEPT !.pc = "joined"]
                                              ELSE IF join_set.tasks[j].pc = "joined"
                                              THEN join_set.tasks[j]
                                              ELSE [adapter |-> join_set.tasks[j].adapter,
                                                    pc |-> "aborted"]],
                                ready |-> <<>>]
                /\ init_call' = [pc |-> "returned", result |-> output]
    /\ UNCHANGED <<get_call, close_call, health_call, write_call, managerRestVars>>

\* join_next yields None: every task was joined; Ok(()) and the guard goes.
InitReturns ==
    /\ init_call.pc = "collecting"
    /\ \A i \in 1..Len(join_set.tasks) : join_set.tasks[i].pc = "joined"
    /\ manager' = [manager EXCEPT !.writer = FALSE]
    /\ init_call' = [pc |-> "returned", result |-> OkUnit]
    /\ UNCHANGED <<join_set, get_call, close_call, health_call, write_call, managerRestVars>>

\* get: self.connectors.read().await
GetLocks ==
    /\ get_call.pc = "called"
    /\ MapCanRead
    /\ manager' = [manager EXCEPT !.readers = @ + 1]
    /\ get_call' = [get_call EXCEPT !.pc = "reading"]
    /\ UNCHANGED <<join_set, init_call, close_call, health_call, write_call, managerRestVars>>

\* get: the lookup, the clone and the end of the guard.
GetReturns ==
    /\ get_call.pc = "reading"
    /\ manager' = [manager EXCEPT !.readers = @ - 1]
    /\ get_call' = [pc |-> "returned", name |-> get_call.name,
                    result |-> ConnectorManager_get(manager.connectors, get_call.name),
                    during |-> init_call.pc]
    /\ UNCHANGED <<join_set, init_call, close_call, health_call, write_call, managerRestVars>>

InitializeNext ==
    TaskFinishes \/ InitLocks \/ InitJoins \/ InitReturns \/ GetLocks \/ GetReturns

SpecInitialize == InitializeInit /\ [][InitializeNext]_vars

\* The adapters initialize was called with, and the tasks whose connector
\* was constructed.
InitAdapters == {join_set.tasks[i].adapter : i \in 1..Len(join_set.tasks)}
InitFailed == init_call.pc = "returned" /\ init_call.result.kind = "err"

\* C23 (as claimed): when initialize returns an error, the map holds none of
\* the connectors that the call constructed, in whatever order the tasks
\* ended.
C23_FailedInitializeClaim == InitFailed => manager.connectors = <<>>

\* C24: a get(name) that runs beside an initialize returns AdapterNotFound
\* of that name or the connector constructed for the adapter of that name,
\* never the connector of another adapter, under every interleaving of the
\* tasks, the insertions and the lookup; and it never reads the map while
\* initialize holds it.
C24_GetBesideInitialize ==
    /\ get_call.pc = "returned" =>
          \/ get_call.result = Err([kind |-> "AdapterNotFound", name |-> get_call.name])
          \/ \E adapter \in InitAdapters :
                /\ adapter.name = get_call.name
                /\ adapter.connects
                /\ get_call.result = create_connector(adapter)
    /\ ~(get_call.pc = "reading" /\ init_call.pc = "collecting")
    /\ \A name \in DOMAIN manager.connectors : manager.connectors[name].adapter = name

\* C24 witness: the get ran while initialize had spawned its tasks and not
\* yet the lock, the connector of its name already constructed, and got
\* AdapterNotFound; initialize then registered two connectors.
C24_Witness ==
    /\ get_call.pc = "returned"
    /\ get_call.during = "spawned"
    /\ get_call.result.kind = "err"
    /\ get_call.name \in DOMAIN manager.connectors
    /\ Cardinality(DOMAIN manager.connectors) = 2

\* A request that has taken its executor, and with it the connector manager,
\* and has not completed.
InFlight(i) == requests[i].pc \in {"started", "executing"}
\* The reload handler is inside Runtime::reload.
Reloading == reload.pc \in {"close", "init"}
ReloadHandlerStep ==
    \/ ReloadSkip \/ ReloadParseFails \/ ReloadParses \/ ReloadLocks \/ ReloadClosesOld
    \/ ReloadInitFails \/ ReloadSucceeds
RequestStep == RequestGetsConnector \/ RequestCompletes
MainStep == MainServes \/ MainShutsDown \/ MainUnlocks \/ MainAborts

SpecDevFair ==
    /\ DevInit
    /\ [][DevNext]_vars
    /\ WF_vars(ReloadHandlerStep)
    /\ WF_vars(RequestStep)
    /\ WF_vars(MainStep)
    /\ WF_vars(Tick)

\* The contents a change can leave that parse, validate and connect.
LoadableContents ==
    {Content(id, TRUE, k, TRUE) : id \in 1..MaxChanges, k \in {"postgres", "redis"}}

\* C26 (as claimed): while the server runs, once the file holds a valid
\* configuration whose connectors can be initialized and it is not changed
\* again, the runtime's model eventually is that configuration; and a
\* reload that waits for the write lock while the server runs eventually
\* gets it.
C26_ReloadCompletesClaim ==
    /\ \A c \in LoadableContents :
          (main_pc = "serving" /\ file = c)
              ~> (runtime.model = c \/ file # c \/ main_pc # "serving")
    /\ (main_pc = "serving" /\ reload.pc = "lock")
          ~> (reload.pc # "lock" \/ main_pc # "serving")

(***************************************************************************)
(* The lifetime of sessionless streams: every request is a GET /mcp        *)
(* without MCP-Session-Id, and a stream ends when its client goes away.    *)
(***************************************************************************)
MaxSessionlessStreams == 3

ArriveSessionless ==
    /\ ~http.pending
    /\ http.n < MaxSessionlessStreams
    /\ FreshUuids # {}
    /\ http' = [n |-> http.n + 1, pending |-> TRUE, request |-> McpGet(NoHeaders),
                before |-> Found, after |-> Found, response |-> NoResponse]
    /\ UNCHANGED <<executor, mcp_sessions, sessions, uuids, streams, executed, env, mcpRestVars>>

Ended(i) == "ended" \in DOMAIN streams[i]

\* The client disconnects and the response body is dropped, and with it the
\* stream's receiver and its clones of the session's Arc: nothing of
\* handle_sse runs.
StreamEnds ==
    \E i \in 1..Len(streams) :
        /\ ~Ended(i)
        /\ streams' = [streams EXCEPT ![i] =
                          [session |-> @.session, start |-> @.start, next |-> @.next,
                           events |-> @.events, ended |-> TRUE]]
        /\ UNCHANGED <<executor, mcp_sessions, sessions, uuids, executed, http, env,
                       mcpRestVars>>

LifetimeNext == ArriveSessionless \/ GetMcp \/ StreamEnds

SpecSseLifetime == McpInit /\ [][LifetimeNext]_vars

\* The sessions the store holds.
StoredSessions == {mcp_sessions[id] : id \in DOMAIN mcp_sessions}
OpenStreams == {i \in 1..Len(streams) : ~Ended(i)}

\* C27 (as claimed): the session created for a GET /mcp without
\* MCP-Session-Id is in the store only while its stream lasts: once the
\* stream has ended the session is not in the store, so the store holds no
\* more sessions than there are open sessionless streams.
C27_EphemeralSessionClaim ==
    /\ \A i \in 1..Len(streams) : Ended(i) => streams[i].session \notin StoredSessions
    /\ Cardinality(DOMAIN mcp_sessions) <= Cardinality(OpenStreams)

\* ---------------------------------------------------------------------
\* ConnectorManager::close_all
\* ---------------------------------------------------------------------

\* The connectors a manager holds after a successful initialize: one
\* connector per name, of any kind.
ManagedConnector(name, kind) == [adapter |-> name, kind |-> kind, url |-> <<"u">>]
ConnectorMaps ==
    UNION {{[n \in names |-> ManagedConnector(n, kinds[n])] :
               kinds \in [names -> {"postgres", "redis"}]} : names \in SUBSET ManagedNames}

\* What Connector::close of a connector returns.
connector_close(c, failed) ==
    IF failed THEN Err(HError("Connector", <<"close of ", c.kind, " failed">>)) ELSE OkUnit

\* The loop body of close_all with the error of a failed close dropped.
close_all_step_silent(errors, name, closed) == errors

\* The loop body of close_all: if let Err(e) = connector.close().await
\* { errors.push(format!("{}: {}", name, e)) }
close_all_step(errors, name, closed) ==
    IF closed.kind = "err"
    THEN Append(errors, name \o <<": ">> \o ErrorDisplay(closed.error))
    ELSE errors

\* close_all is called on a manager holding some connectors.
CloseAllInit ==
    /\ \E map \in ConnectorMaps : manager = [connectors |-> map, readers |-> 0, writer |-> FALSE]
    /\ join_set = <<>> /\ init_call = NoCall /\ get_call = NoCall
    /\ close_call = [pc |-> "called"]
    /\ health_call = NoCall /\ write_call = NoCall
    /\ ManagerRest

\* self.connectors.read().await; let mut errors = Vec::new()
CloseAllLocks ==
    /\ close_call.pc = "called"
    /\ MapCanRead
    /\ manager' = [manager EXCEPT !.readers = @ + 1]
    /\ close_call' = [pc |-> "closing", todo |-> DOMAIN manager.connectors,
                      closes |-> <<>>, errors |-> <<>>]
    /\ UNCHANGED <<join_set, init_call, get_call, health_call, write_call, managerRestVars>>

\* One turn of the loop over connectors.iter(): the HashMap yields its
\* entries in an order of its own, each once.
CloseNext ==
    /\ close_call.pc = "closing"
    /\ \E name \in close_call.todo, failed \in BOOLEAN :
          LET closed == connector_close(manager.connectors[name], failed)
          IN  close_call' = [pc |-> "closing", todo |-> close_call.todo \ {name},
                             closes |-> Append(close_call.closes,
                                               [name |-> name, closed |-> closed]),
                             errors |-> close_all_step(close_call.errors, name, closed)]
    /\ UNCHANGED <<manager, join_set, init_call, get_call, health_call, write_call,
                   managerRestVars>>

\* The loop is over: the result is built and the guard goes.
CloseAllReturns ==
    /\ close_call.pc = "closing"
    /\ close_call.todo = {}
    /\ manager' = [manager EXCEPT !.readers = @ - 1]
    /\ close_call' = [pc |-> "returned", closes |-> close_call.closes,
                      errors |-> close_call.errors,
                      result |-> close_all_result(Join(close_call.errors, <<", ">>))]
    /\ UNCHANGED <<join_set, init_call, get_call, health_call, write_call, managerRestVars>>

CloseAllNext == CloseAllLocks \/ CloseNext \/ CloseAllReturns

SpecCloseAll == CloseAllInit /\ [][CloseAllNext]_vars

\* The number of times close was invoked on the connector of a name, and
\* the names whose close failed.
ClosesOf(name) ==
    Cardinality({i \in 1..Len(close_call.closes) : close_call.closes[i].name = name})
FailedCloses ==
    {close_call.closes[i].name :
        i \in {j \in 1..Len(close_call.closes) : close_call.closes[j].closed.kind = "err"}}
\* The text holds the name followed by ": ".
Names(text, name) ==
    \E i \in 1..Len(text) - 1 : text[i] = name[1] /\ text[i + 1] = ": "

\* C28: close_all invokes close exactly once on every registered connector,
\* going on after a close fails; it returns Ok exactly when every close
\* succeeded, and otherwise one Connector error whose message names every
\* connector whose close failed.
C28_CloseAllAggregates ==
    close_call.pc = "returned" =>
        /\ \A name \in ManagedNames :
              ClosesOf(name) = IF name \in DOMAIN manager.connectors THEN 1 ELSE 0
        /\ close_call.result.kind = "ok" <=> FailedCloses = {}
        /\ close_call.result.kind = "err" =>
              /\ close_call.result.error.kind = "Connector"
              /\ close_call.result.error.message[1] = "Errors closing connectors: "
              /\ \A name \in FailedCloses : Names(close_call.result.error.message, name)
              /\ \A name \in ManagedNames \ FailedCloses :
                    ~Names(close_call.result.error.message, name)

\* close_all has returned an error after a close failed and a later close
\* succeeded, and after two closes failed.
C28_Witness ==
    /\ close_call.pc = "returned"
    /\ close_call.result.kind = "err"
    /\ Len(close_call.closes) = 3
    /\ close_call.closes[1].closed.kind = "err"
    /\ close_call.closes[2].closed.kind = "ok"
    /\ close_call.closes[3].closed.kind = "err"

\* ---------------------------------------------------------------------
\* ConnectorManager::health_check_all
\* ---------------------------------------------------------------------

\* buffer_unordered(16), scaled to the connectors of the model.
MaxConcurrentChecks == 2

Min(a, b) == IF a < b THEN a ELSE b

\* The read guard is kept until the function returns.
drop_connectors_late(map) == map

\* drop(connectors): the read guard is released.
drop_connectors(map) == [map EXCEPT !.readers = @ - 1]

\* What the future of one connector yields:
\* connector.health_check().await.map_err(|e| e.to_string())
health_check_entry(c, healthy) ==
    IF healthy THEN OkUnit
    ELSE Err(ErrorDisplay(BackendError(c.kind, "health_check", "timed out")))

\* health_check_all is called on a manager holding some connectors, beside
\* a writer of the map that registers a connector.
HealthInit ==
    /\ \E map \in ConnectorMaps : manager = [connectors |-> map, readers |-> 0, writer |-> FALSE]
    /\ join_set = <<>> /\ init_call = NoCall /\ get_call = NoCall /\ close_call = NoCall
    /\ health_call = [pc |-> "called"]
    /\ \E name \in ManagedNames :
          write_call = [pc |-> "called", connector |-> ManagedConnector(name, "redis")]
    /\ ManagerRest

\* let connectors = self.connectors.read().await
HealthLocks ==
    /\ health_call.pc = "called"
    /\ MapCanRead
    /\ manager' = [manager EXCEPT !.readers = @ + 1]
    /\ health_call' = [pc |-> "locked"]
    /\ UNCHANGED <<join_set, init_call, get_call, close_call, write_call, managerRestVars>>

\* The handles are cloned into connector_list, the guard is dropped, and
\* the first poll of the buffered stream starts the first checks.
HealthCopies ==
    /\ health_call.pc = "locked"
    /\ manager' = drop_connectors(manager)
    /\ \E order \in [1..Cardinality(DOMAIN manager.connectors) -> DOMAIN manager.connectors] :
          /\ \A i, j \in DOMAIN order : i # j => order[i] # order[j]
          /\ health_call' = [pc |-> "checking", copied |-> manager.connectors,
                             connector_list |-> order,
                             started |-> Min(MaxConcurrentChecks, Len(order)),
                             results |-> <<>>]
    /\ UNCHANGED <<join_set, init_call, get_call, close_call, write_call, managerRestVars>>

\* The positions of connector_list whose check is in flight.
Running ==
    {i \in 1..health_call.started :
        \A k \in 1..Len(health_call.results) : health_call.results[k][1] # health_call.connector_list[i]}

\* One of the checks in flight ends, whichever; its pair is yielded and the
\* next poll of the stream starts the next check of the list, if any.
CheckFinishes ==
    /\ health_call.pc = "checking"
    /\ \E i \in Running, healthy \in BOOLEAN :
          LET name == health_call.connector_list[i]
          IN  health_call' =
                 [health_call EXCEPT
                     !.results = Append(@, <<name, health_check_entry(health_call.copied[name],
                                                                      healthy)>>),
                     !.started = Min(@ + 1, Len(health_call.connector_list))]
    /\ UNCHANGED <<manager, join_set, init_call, get_call, close_call, write_call,
                   managerRestVars>>

\* The stream is over: results.into_iter().collect()
HealthReturns ==
    /\ health_call.pc = "checking"
    /\ Len(health_call.results) = Len(health_call.connector_list)
    /\ health_call' = [pc |-> "returned", copied |-> health_call.copied,
                       connector_list |-> health_call.connector_list,
                       result |-> [name \in {health_call.results[k][1] :
                                                k \in 1..Len(health_call.results)} |->
                                     LET k == CHOOSE k \in 1..Len(health_call.results) :
                                                 /\ health_call.results[k][1] = name
                                                 /\ \A l \in k + 1..Len(health_call.results) :
                                                       health_call.results[l][1] # name
                                     IN  health_call.results[k][2]],
                       results |-> health_call.results]
    /\ UNCHANGED <<manager, join_set, init_call, get_call, close_call, write_call,
                   managerRestVars>>

\* The writer: self.connectors.write().await in initialize.
WriterLocks ==
    /\ write_call.pc = "called"
    /\ MapCanWrite
    /\ manager' = [manager EXCEPT !.writer = TRUE]
    /\ write_call' = [pc |-> "writing", connector |-> write_call.connector,
                      during |-> health_call.pc]
    /\ UNCHANGED <<join_set, init_call, get_call, close_call, health_call, managerRestVars>>

\* The writer inserts its connector and its guard goes.
WriterInserts ==
    /\ write_call.pc = "writing"
    /\ manager' = [manager EXCEPT !.connectors = Insert(@, write_call.connector.adapter,
                                                        write_call.connector),
                                  !.writer = FALSE]
    /\ write_call' = [write_call EXCEPT !.pc = "returned"]
    /\ UNCHANGED <<join_set, init_call, get_call, close_call, health_call, managerRestVars>>

HealthNext ==
    HealthLocks \/ HealthCopies \/ CheckFinishes \/ HealthReturns \/ WriterLocks \/ WriterInserts

SpecHealth == HealthInit /\ [][HealthNext]_vars

\* The checks not yet over.
Unfinished == Len(health_call.connector_list) - Len(health_call.results)

\* C29: health_check_all holds the read lock only while it copies the
\* handles: no check is in flight under the lock, so a writer that asks for
\* the map while checks run is granted it; the checks in flight are as many
\* as the parallelism allows whichever of them are slow; and the returned
\* map has exactly one entry for each connector of the map at the copy,
\* holding the outcome of that connector's check.
C29_HealthChecksOutsideLock ==
    /\ health_call.pc = "checking" =>
          /\ manager.readers = 0
          /\ write_call.pc = "called" => MapCanWrite
          /\ Cardinality(Running) = Min(MaxConcurrentChecks, Unfinished)
    /\ health_call.pc = "returned" =>
          /\ manager.readers = 0
          /\ DOMAIN health_call.result = DOMAIN health_call.copied
          /\ Len(health_call.results) = Cardinality(DOMAIN health_call.copied)
          /\ \A k \in 1..Len(health_call.results) :
                health_call.result[health_call.results[k][1]] = health_call.results[k][2]

\* The writer took the map while checks were in flight and registered a
\* connector the copy does not hold; the checks ended out of the order of
\* the list, one of them failing.
C29_Witness ==
    /\ health_call.pc = "returned"
    /\ write_call.pc = "returned"
    /\ write_call.during = "checking"
    /\ DOMAIN manager.connectors # DOMAIN health_call.result
    /\ Cardinality(DOMAIN health_call.copied) = 2
    /\ health_call.results[1][1] = health_call.connector_list[2]
    /\ \E k \in 1..2 : health_call.results[k][2].kind = "err"

\* ---------------------------------------------------------------------
\* From the accepted model to the substituted statement
\* ---------------------------------------------------------------------

\* Declarations of an input: required, optional with a default, optional
\* without one.
PipelineInputDefs(name) ==
    {InputNew(name, "String"), InputOptional(name, "Int", JNum(7)),
     InputOptional(name, "String", NoDefault)}
PipelineInputLists ==
    {<<>>}
    \cup {<<d>> : d \in PipelineInputDefs(InputNameA) \cup PipelineInputDefs(InputNameB)}
    \cup {<<a, b>> : a \in PipelineInputDefs(InputNameA), b \in PipelineInputDefs(InputNameB)}
    \cup {<<b, a>> : a \in PipelineInputDefs(InputNameA), b \in PipelineInputDefs(InputNameB)}
    \cup {<<InputNew(InputNameA, "String"), InputOptional(InputNameA, "Int", JNum(7))>>}
PipelineSupplied ==
    UNION {[ks -> {JStr(<<"x">>), JNum(42)}] : ks \in SUBSET InputNames}
\* The environment may hold a variable whose value reads as a placeholder.
PipelineEnvironments == Environments \cup {[n \in {EnvNameX} |-> PlaceholderB]}

PipelineRest == ErrorIdle /\ DevIdle /\ SurfaceIdle
pipelineRestVars == <<errorVars, devVars, shutdownVars, mcpVars, portVars, managerVars>>

\* A model of one adapter and one query is loaded; a caller supplies a map.
PipelineInit ==
    /\ \E conn \in {"postgres", "mongodb"}, stmt \in PieceStatements,
          ins \in PipelineInputLists :
            /\ model = [name |-> <<"m">>, adapters |-> <<Adapter(<<"d">>, conn, <<"u">>)>>,
                        queries |-> <<Query(<<"q">>, <<"d">>, stmt, ins)>>]
            /\ connector = conn
    /\ strict_names = TRUE
    /\ query = NoQuery
    /\ statement = <<>>
    /\ inputs \in PipelineSupplied
    /\ env \in PipelineEnvironments
    /\ result = NoResult
    /\ PipelineRest

\* The model goes through ConfigValidator::validate; the query is looked up.
AcceptModel ==
    /\ result = NoResult
    /\ LET checked == config_validate(strict_names, model)
       IN  IF checked.kind = "err"
           THEN /\ result' = [kind |-> "rejected", by |-> "config", error |-> checked.error]
                /\ UNCHANGED query
           ELSE /\ result' = [kind |-> "accepted"]
                /\ query' = find_query(model, <<"q">>).value
    /\ UNCHANGED <<model, strict_names, statement, inputs, connector, env, pipelineRestVars>>

\* execute: self.validator.validate(query, inputs)?
ValidateInputs ==
    /\ result.kind = "accepted"
    /\ LET validated == validate(query, inputs)
       IN  IF validated.kind = "err"
           THEN /\ result' = [kind |-> "rejected", by |-> "validate",
                              error |-> validated.error]
                /\ UNCHANGED inputs
           ELSE /\ result' = [kind |-> "validated", supplied |-> inputs]
                /\ inputs' = validated.value
    /\ UNCHANGED <<model, strict_names, query, statement, connector, env, pipelineRestVars>>

\* execute: self.substitutor.substitute(&query.statement, &validated_inputs, ..)
SubstituteStatement ==
    /\ result.kind = "validated"
    /\ result' = [kind |-> "substituted", supplied |-> result.supplied,
                  out |-> substitute(query.statement, inputs, connector, env)]
    /\ statement' = query.statement
    /\ UNCHANGED <<model, strict_names, query, inputs, connector, env, pipelineRestVars>>

PipelineNext == AcceptModel \/ ValidateInputs \/ SubstituteStatement

SpecPipeline == PipelineInit /\ [][PipelineNext]_vars

\* The statement has no {{ env.* }} placeholder.
NoEnvPlaceholder == ENV_PATTERN(statement) = <<>>
\* The declaration of a name in the query.
DeclarationsOf(name) ==
    {query.inputs[i] : i \in {j \in 1..Len(query.inputs) : query.inputs[j].name = name}}
Referenced == {INPUT_PATTERN(statement)[i].name : i \in 1..Len(INPUT_PATTERN(statement))}

\* C30: for a query of an accepted model whose statement has no env
\* placeholder and a map the input validator accepted, substitute on the
\* validated map does not fail with MissingInput: every placeholder of the
\* statement has a value, the one the caller supplied or the default of its
\* declaration.
C30_ValidatedInputsCoverPlaceholders ==
    (result.kind = "substituted" /\ NoEnvPlaceholder) =>
        /\ ~(result.out.kind = "err" /\ result.out.error.kind = "MissingInput")
        /\ \A name \in Referenced :
              /\ name \in DOMAIN inputs
              /\ IF name \in DOMAIN result.supplied
                 THEN inputs[name] = result.supplied[name]
                 ELSE \E d \in DeclarationsOf(name) : ~d.required /\ inputs[name] = d.default

\* A statement of two placeholders was substituted, one input supplied by
\* the caller and the other inserted as its default.
C30_Witness ==
    /\ result.kind = "substituted"
    /\ NoEnvPlaceholder
    /\ result.out.kind = "ok"
    /\ Referenced = InputNames
    /\ \E name \in InputNames :
          /\ name \in DOMAIN result.supplied
          /\ \E other \in InputNames \ {name} :
                other \notin DOMAIN result.supplied /\ other \in DOMAIN inputs

====
